---- MODULE Spec2Model ----
(***************************************************************************)
(* A model of the Valkey benchmark load generator                          *)
(* (src/python/valkey-benchmark.py): the rate controller, the worker       *)
(* engine with its cooperative request tasks, the sample pipeline and the  *)
(* orchestrator.                                                           *)
(*                                                                         *)
(* Time is a discrete clock `now`, counted in ticks; TicksPerSec ticks     *)
(* make one second.  Every time.time() a handler reads within one          *)
(* uninterrupted run of the event loop returns the same tick.  A step of   *)
(* a task is everything the code runs between two suspension points        *)
(* (await of a sleep, of request I/O, of a connection).                    *)
(***************************************************************************)
EXTENDS Integers, Sequences, FiniteSets, TLC

\* ---------------------------------------------------------------- bounds
\* Resolution of the clock: ticks per second.
TicksPerSec == 2
\* The clock stops advancing at MaxTime ticks.
MaxTime == 4
\* The server answers at most MaxResponses requests of one worker.
MaxResponses == 3
\* Capacity of the metrics queue in the model (Queue(maxsize=1000) in the code).
QueueMaxsize == 2
\* The largest request quota (-n), number of request tasks (--threads) and
\* pool size (-c) of the configurations explored.
MaxRequests == 2
MaxThreads == 2
MaxPool == 2
\* The largest rate limit (--qps) of the configurations explored.
MaxQps == 2
\* The largest CSV interval (--interval-metrics-interval-duration-sec), in seconds.
MaxCsvInterval == 1
\* The last tick of a multi-process run.
MaxTimeMp == 2
\* The largest number of worker processes.
MaxProcesses == 2
\* The largest quota and the largest number of processes that are planned.
MaxPlanRequests == 5
MaxPlanProcesses == 3
\* The last tick of a run with a ramp: three ramp intervals of one second.
MaxTimeRamp == 6

VARIABLES
    now,              \* the clock, in ticks
    config,           \* the configuration main() builds from the command line
    env,              \* what the environment may do in this run
    main,             \* the main process: [pc, exit_code]
    proc,             \* w -> [pc, exit_code, config]: run_benchmark of worker w
    stats,            \* w -> the worker's BenchmarkStats object
    qps_controller,   \* w -> the worker's QPSController object
    task,             \* w -> k -> request task k of worker w
    client_pool,      \* w -> [opened, closed]: connections of worker w
    metrics_queue,    \* the bounded queue shared by workers and orchestrator
    shutdown_event,   \* the shared shutdown flag
    orch,             \* the orchestrator's local state
    stdout,           \* the lines printed to standard output, in order
    hist,             \* w -> history counters kept for the properties
    custom_commands,  \* w -> the CustomCommands object of worker w
    keyspace          \* hash table id -> the times the server saw it populated

vars == <<now, config, env, main, proc, stats, qps_controller, task,
          client_pool, metrics_queue, shutdown_event, orch, stdout, hist,
          custom_commands, keyspace>>

\* ---------------------------------------------------------------- helpers
Sec(n) == n * TicksPerSec

Max(a, b) == IF a >= b THEN a ELSE b
Min(a, b) == IF a <= b THEN a ELSE b

RECURSIVE SumSeq(_)
SumSeq(s) == IF s = <<>> THEN 0 ELSE Head(s) + SumSeq(Tail(s))

RECURSIVE SumOver(_, _)
\* Sum of f[x] over the finite set S.
SumOver(f, S) ==
    IF S = {} THEN 0
    ELSE LET x == CHOOSE y \in S : TRUE IN f[x] + SumOver(f, S \ {x})

\* ------------------------------------------------------ QPSController
\* A ramp factor is the rational num/den, kept as the pair <<num, den>>.
FactorPositive(f) == f[1] > 0

\* int(round(q * f)): Python 3 rounds a half to the even neighbour.
RoundMul(q, f) ==
    LET n == q * f[1]
        d == f[2]
        lo == n \div d
        r2 == 2 * (n % d)
    IN  IF r2 < d THEN lo
        ELSE IF r2 > d THEN lo + 1
        ELSE IF lo % 2 = 0 THEN lo ELSE lo + 1

\* QPSController_init that prefers qps to start_qps.
QPSController_init_qps_first(cfg, t) ==
    [ current_qps |-> IF cfg.qps > 0 THEN cfg.qps
                      ELSE IF cfg.start_qps > 0 THEN cfg.start_qps
                      ELSE IF cfg.end_qps > 0 THEN cfg.end_qps
                      ELSE 0,
      last_update |-> t,
      requests_this_second |-> 0,
      second_start |-> t,
      exponential_multiplier |->
          IF cfg.qps_ramp_mode = "exponential" /\ FactorPositive(cfg.qps_ramp_factor)
          THEN cfg.qps_ramp_factor ELSE <<1, 1>>,
      effective_start_qps |-> IF cfg.start_qps > 0 THEN cfg.start_qps ELSE cfg.end_qps,
      sys_exit |-> /\ cfg.qps_ramp_mode = "exponential"
                   /\ (cfg.start_qps > 0 \/ cfg.end_qps > 0) /\ cfg.end_qps > 0
                   /\ cfg.qps_change_interval > 0
                   /\ ~FactorPositive(cfg.qps_ramp_factor) ]

\* QPSController.__init__: the object built at time t; sys_exit tells that
\* the constructor ended in sys.exit(1).
QPSController_init(cfg, t) ==
    LET current ==
            IF cfg.start_qps > 0 THEN cfg.start_qps
            ELSE IF cfg.qps > 0 THEN cfg.qps
            ELSE IF cfg.end_qps > 0 THEN cfg.end_qps
            ELSE 0
        \* the local start_qps after the fallback of line 88
        start_qps ==
            IF cfg.qps_change_interval > 0 /\ cfg.end_qps > 0 /\ cfg.start_qps <= 0
            THEN cfg.end_qps ELSE cfg.start_qps
        exponential ==
            /\ cfg.qps_ramp_mode = "exponential"
            /\ start_qps > 0 /\ cfg.end_qps > 0
            /\ cfg.qps_change_interval > 0
    IN  [ current_qps |-> current,
          last_update |-> t,
          requests_this_second |-> 0,
          second_start |-> t,
          exponential_multiplier |->
              IF exponential /\ FactorPositive(cfg.qps_ramp_factor)
              THEN cfg.qps_ramp_factor ELSE <<1, 1>>,
          effective_start_qps |-> IF start_qps > 0 THEN start_qps ELSE cfg.end_qps,
          sys_exit |-> exponential /\ ~FactorPositive(cfg.qps_ramp_factor) ]

\* ramp_update whose linear step is not clamped to end_qps.
ramp_update_unclamped(qc, cfg, t) ==
    LET has_dynamic_qps ==
            /\ cfg.start_qps # 0 /\ cfg.end_qps # 0
            /\ cfg.qps_change_interval > 0
            /\ (cfg.qps_ramp_mode = "exponential" \/ cfg.qps_change # 0)
    IN  IF has_dynamic_qps /\ t - qc.last_update >= Sec(cfg.qps_change_interval)
        THEN [qc EXCEPT !.current_qps =
                           IF cfg.qps_ramp_mode = "exponential"
                           THEN RoundMul(qc.current_qps, qc.exponential_multiplier)
                           ELSE qc.current_qps + cfg.qps_change,
                        !.last_update = t]
        ELSE qc

\* ramp_update whose exponential step truncates the product instead of
\* rounding it.
ramp_update_truncating(qc, cfg, t) ==
    LET has_dynamic_qps ==
            /\ cfg.start_qps # 0 /\ cfg.end_qps # 0
            /\ cfg.qps_change_interval > 0
            /\ (cfg.qps_ramp_mode = "exponential" \/ cfg.qps_change # 0)
        grown == (qc.current_qps * qc.exponential_multiplier[1])
                     \div qc.exponential_multiplier[2]
    IN  IF has_dynamic_qps /\ t - qc.last_update >= Sec(cfg.qps_change_interval)
        THEN [qc EXCEPT !.current_qps =
                           IF cfg.qps_ramp_mode = "exponential"
                           THEN (IF cfg.end_qps > cfg.start_qps
                                 THEN Min(grown, cfg.end_qps)
                                 ELSE Max(grown, cfg.end_qps))
                           ELSE Min(cfg.end_qps, qc.current_qps + cfg.qps_change),
                        !.last_update = t]
        ELSE qc

\* The ramp update without the test of the direction, lines 150-152.
ramp_update_ignores_direction(qc, cfg, t) ==
    LET is_exponential == cfg.qps_ramp_mode = "exponential"
        has_dynamic_qps ==
            /\ cfg.start_qps # 0 /\ cfg.end_qps # 0
            /\ cfg.qps_change_interval > 0
            /\ (is_exponential \/ cfg.qps_change # 0)
        grown == RoundMul(qc.current_qps, qc.exponential_multiplier)
        exp_qps ==
            IF cfg.end_qps > cfg.start_qps
            THEN (IF grown > cfg.end_qps THEN cfg.end_qps ELSE grown)
            ELSE (IF grown < cfg.end_qps THEN cfg.end_qps ELSE grown)
        stepped == qc.current_qps + cfg.qps_change
        lin_qps ==
            IF \/ (cfg.qps_change > 0 /\ stepped > cfg.end_qps)
               \/ (cfg.qps_change < 0 /\ stepped < cfg.end_qps)
            THEN cfg.end_qps ELSE stepped
    IN  IF has_dynamic_qps /\ t - qc.last_update >= Sec(cfg.qps_change_interval)
        THEN [qc EXCEPT !.current_qps = IF is_exponential THEN exp_qps ELSE lin_qps,
                        !.last_update = t]
        ELSE qc

\* The ramp update of throttle(), lines 120-158.
ramp_update(qc, cfg, t) ==
    LET is_exponential == cfg.qps_ramp_mode = "exponential"
        has_dynamic_qps ==
            /\ cfg.start_qps # 0 /\ cfg.end_qps # 0
            /\ cfg.qps_change_interval > 0
            /\ (is_exponential \/ cfg.qps_change # 0)
        grown == RoundMul(qc.current_qps, qc.exponential_multiplier)
        exp_qps ==
            IF cfg.end_qps > cfg.start_qps
            THEN (IF grown > cfg.end_qps THEN cfg.end_qps ELSE grown)
            ELSE (IF grown < cfg.end_qps THEN cfg.end_qps ELSE grown)
        diff == cfg.end_qps - qc.current_qps
        stepped == qc.current_qps + cfg.qps_change
        lin_qps ==
            IF (diff > 0 /\ cfg.qps_change > 0) \/ (diff < 0 /\ cfg.qps_change < 0)
            THEN (IF \/ (cfg.qps_change > 0 /\ stepped > cfg.end_qps)
                     \/ (cfg.qps_change < 0 /\ stepped < cfg.end_qps)
                  THEN cfg.end_qps ELSE stepped)
            ELSE qc.current_qps
    IN  IF has_dynamic_qps /\ t - qc.last_update >= Sec(cfg.qps_change_interval)
        THEN [qc EXCEPT !.current_qps = IF is_exponential THEN exp_qps ELSE lin_qps,
                        !.last_update = t]
        ELSE qc

\* The end of throttle() once the ceiling was hit, lines 169-172: the
\* counter is reset, second_start is stamped and the request is counted.
throttle_resume(qc, t) ==
    [qc EXCEPT !.requests_this_second = 1, !.second_start = t]

\* throttle_ceiling with the ceiling tested by > instead of >=.
throttle_ceiling_off_by_one(qc, t) ==
    LET rollover == t - qc.second_start >= Sec(1)
        rolled ==
            IF rollover
            THEN [qc EXCEPT !.requests_this_second = 0, !.second_start = t]
            ELSE qc
        wait_time == Sec(1) - (t - rolled.second_start)
    IN  IF rolled.requests_this_second > rolled.current_qps
        THEN IF wait_time > 0
             THEN [qc |-> rolled, sleep |-> TRUE, wake |-> t + wait_time,
                   stamped |-> rollover]
             ELSE [qc |-> throttle_resume(rolled, t), sleep |-> FALSE, wake |-> t,
                   stamped |-> TRUE]
        ELSE [qc |-> [rolled EXCEPT !.requests_this_second = @ + 1],
              sleep |-> FALSE, wake |-> t, stamped |-> rollover]

\* The second rollover and the ceiling test of throttle(), lines 160-172.
\* stamped tells whether second_start was stamped on the way.
throttle_ceiling(qc, t) ==
    LET rollover == t - qc.second_start >= Sec(1)
        rolled ==
            IF rollover
            THEN [qc EXCEPT !.requests_this_second = 0, !.second_start = t]
            ELSE qc
        wait_time == Sec(1) - (t - rolled.second_start)
    IN  IF rolled.requests_this_second >= rolled.current_qps
        THEN IF wait_time > 0
             THEN [qc |-> rolled, sleep |-> TRUE, wake |-> t + wait_time,
                   stamped |-> rollover]
             ELSE [qc |-> throttle_resume(rolled, t), sleep |-> FALSE, wake |-> t,
                   stamped |-> TRUE]
        ELSE [qc |-> [rolled EXCEPT !.requests_this_second = @ + 1],
              sleep |-> FALSE, wake |-> t, stamped |-> rollover]

\* throttle() without the early return of lines 117-118.
throttle_always_limits(qc, cfg, t) == throttle_ceiling(ramp_update(qc, cfg, t), t)

\* throttle() called at time t, up to its return or to its sleep:
\* [qc: the controller afterwards, sleep: whether the caller is suspended
\* in asyncio.sleep, wake: when that sleep ends, stamped].
throttle(qc, cfg, t) ==
    IF qc.current_qps <= 0
    THEN [qc |-> qc, sleep |-> FALSE, wake |-> t, stamped |-> FALSE]
    ELSE throttle_ceiling(ramp_update(qc, cfg, t), t)

\* ------------------------------------------------------ BenchmarkStats
\* Latencies are kept in units of 1/UnitsPerUsec microsecond, so that the
\* conversion to integer microseconds truncates.
UnitsPerUsec == 2

\* Percentiles are given in thousandths of a percent (99.999 is 99999).
P50 == 50000
P90 == 90000
P95 == 95000
P99 == 99000
P99_9 == 99900
P99_99 == 99990
P99_999 == 99999

RECURSIVE Insert(_, _)
Insert(x, s) ==
    IF s = <<>> THEN <<x>>
    ELSE IF x <= Head(s) THEN <<x>> \o s
    ELSE <<Head(s)>> \o Insert(x, Tail(s))

\* The list as it arrived, not put in order.
sorted_keeps_order(s) == s

RECURSIVE sorted(_)
\* sorted(list): ascending order.
sorted(s) == IF s = <<>> THEN <<>> ELSE Insert(Head(s), sorted(Tail(s)))

\* int(latency * 1000): milliseconds to integer microseconds, truncated.
to_usec(latency) == latency \div UnitsPerUsec

BenchmarkStats_init(csv_mode, csv_interval_sec, has_queue, worker_id, t) ==
    [ start_time |-> t,
      requests_completed |-> 0,
      latencies |-> <<>>,
      errors |-> 0,
      last_print |-> t,
      last_requests |-> 0,
      current_window_latencies |-> <<>>,
      has_queue |-> has_queue,
      worker_id |-> worker_id,
      csv_interval_sec |-> csv_interval_sec,
      csv_mode |-> csv_mode,
      interval_start_time |-> t,
      interval_latencies |-> <<>>,
      interval_errors |-> 0,
      interval_moved |-> 0,
      interval_clusterdown |-> 0,
      interval_disconnects |-> 0,
      interval_requests |-> 0,
      csv_header_printed |-> FALSE ]

\* calculate_percentile_usec that rounds the index to the nearest rank.
calculate_percentile_usec_rounds_index(sorted_latencies, percentile) ==
    IF sorted_latencies = <<>> THEN 0
    ELSE LET L == Len(sorted_latencies)
             idx == (L * percentile + 50000) \div 100000
         IN  to_usec(sorted_latencies[(IF idx >= L THEN L - 1 ELSE idx) + 1])

\* Lines 289-308.  percentile is in thousandths of a percent; for the seven
\* percentiles of the program and for whole percents the floating-point
\* int(len * percentile / 100.0) equals the exact quotient computed here.
calculate_percentile_usec(sorted_latencies, percentile) ==
    IF sorted_latencies = <<>> THEN 0
    ELSE LET L == Len(sorted_latencies)
             idx == (L * percentile) \div 100000
         IN  to_usec(sorted_latencies[(IF idx >= L THEN L - 1 ELSE idx) + 1])

\* requests / duration per second, as the fraction <<numerator, denominator>>;
\* the duration is the fraction num/den of a tick.  0.0 when it is not positive.
request_rate(requests, num, den) ==
    IF num > 0 THEN <<requests * den * TicksPerSec, num>> ELSE <<0, 1>>

\* The fifteen fields of a data row computed from an interval.
csv_row(timestamp, request_sec, lats, errors, moved, clusterdown, disconnects) ==
    LET s == sorted(lats)
        some == lats # <<>>
    IN  [ line |-> "row",
          timestamp |-> timestamp,
          request_sec |-> request_sec,
          p50_usec |-> calculate_percentile_usec(s, P50),
          p90_usec |-> calculate_percentile_usec(s, P90),
          p95_usec |-> calculate_percentile_usec(s, P95),
          p99_usec |-> calculate_percentile_usec(s, P99),
          p99_9_usec |-> calculate_percentile_usec(s, P99_9),
          p99_99_usec |-> calculate_percentile_usec(s, P99_99),
          p99_999_usec |-> calculate_percentile_usec(s, P99_999),
          p100_usec |-> IF some THEN to_usec(s[Len(s)]) ELSE 0,
          avg_usec |-> IF some THEN SumSeq(s) \div (Len(s) * UnitsPerUsec) ELSE 0,
          requests_total_failed |-> errors,
          requests_moved |-> moved,
          requests_clusterdown |-> clusterdown,
          client_disconnects |-> disconnects ]

\* reset_interval that leaves interval_start_time as it was.
reset_interval_keeps_start(st, t) ==
    [st EXCEPT !.interval_latencies = <<>>,
               !.interval_errors = 0,
               !.interval_moved = 0,
               !.interval_clusterdown = 0,
               !.interval_disconnects = 0,
               !.interval_requests = 0]

\* reset_interval that leaves the samples in the list.
reset_interval_keeps_samples(st, t) ==
    [st EXCEPT !.interval_start_time = t,
               !.interval_errors = 0,
               !.interval_moved = 0,
               !.interval_clusterdown = 0,
               !.interval_disconnects = 0,
               !.interval_requests = 0]

\* The reset that ends emit_csv_line and send_csv_metrics.
reset_interval(st, t) ==
    [st EXCEPT !.interval_start_time = t,
               !.interval_latencies = <<>>,
               !.interval_errors = 0,
               !.interval_moved = 0,
               !.interval_clusterdown = 0,
               !.interval_disconnects = 0,
               !.interval_requests = 0]

\* The operations below act on a context c = [stats, stdout, metrics_queue]:
\* the worker's statistics object and the two outputs it writes to.

print_csv_header(c) ==
    IF c.stats.csv_header_printed THEN c
    ELSE [c EXCEPT !.stdout = Append(@, [line |-> "header"]),
                   !.stats.csv_header_printed = TRUE]

emit_csv_line(c, t) ==
    LET st == c.stats
        row == csv_row(t \div TicksPerSec,
                       request_rate(st.interval_requests, t - st.interval_start_time, 1),
                       st.interval_latencies,
                       st.interval_errors, st.interval_moved,
                       st.interval_clusterdown, st.interval_disconnects)
    IN  [c EXCEPT !.stdout = Append(@, row), !.stats = reset_interval(st, t)]

\* check_csv_interval that waits until the interval is exceeded.
check_csv_interval_strict(c, t) ==
    IF c.stats.csv_mode /\ t - c.stats.interval_start_time > Sec(c.stats.csv_interval_sec)
    THEN emit_csv_line(c, t)
    ELSE c

check_csv_interval(c, t) ==
    IF c.stats.csv_mode /\ t - c.stats.interval_start_time >= Sec(c.stats.csv_interval_sec)
    THEN emit_csv_line(c, t)
    ELSE c

\* metrics_queue.put(m, block=False) with queue.Full swallowed.
put_nowait(q, m) == IF Len(q) < QueueMaxsize THEN Append(q, m) ELSE q

\* send_csv_metrics that keeps the bucket when the queue is full.
send_csv_metrics_keeps_on_full(c, t) ==
    LET st == c.stats
        metrics == [ type |-> "csv_interval",
                     worker_id |-> st.worker_id,
                     timestamp |-> t \div TicksPerSec,
                     interval_duration |-> t - st.interval_start_time,
                     interval_latencies |-> st.interval_latencies,
                     interval_requests |-> st.interval_requests,
                     interval_errors |-> st.interval_errors,
                     interval_moved |-> st.interval_moved,
                     interval_clusterdown |-> st.interval_clusterdown,
                     interval_disconnects |-> st.interval_disconnects ]
    IN  IF ~st.has_queue \/ Len(c.metrics_queue) >= QueueMaxsize THEN c
        ELSE [c EXCEPT !.metrics_queue = put_nowait(@, metrics),
                       !.stats = reset_interval(st, t)]

send_csv_metrics(c, t) ==
    LET st == c.stats
        metrics == [ type |-> "csv_interval",
                     worker_id |-> st.worker_id,
                     timestamp |-> t \div TicksPerSec,
                     interval_duration |-> t - st.interval_start_time,
                     interval_latencies |-> st.interval_latencies,
                     interval_requests |-> st.interval_requests,
                     interval_errors |-> st.interval_errors,
                     interval_moved |-> st.interval_moved,
                     interval_clusterdown |-> st.interval_clusterdown,
                     interval_disconnects |-> st.interval_disconnects ]
    IN  IF ~st.has_queue THEN c
        ELSE [c EXCEPT !.metrics_queue = put_nowait(@, metrics),
                       !.stats = reset_interval(st, t)]

\* check_csv_interval_multiprocess that prints the row in the worker.
check_csv_interval_multiprocess_prints(c, t) ==
    IF /\ c.stats.csv_mode /\ c.stats.has_queue
       /\ t - c.stats.interval_start_time >= Sec(c.stats.csv_interval_sec)
    THEN emit_csv_line(c, t)
    ELSE c

check_csv_interval_multiprocess(c, t) ==
    IF /\ c.stats.csv_mode /\ c.stats.has_queue
       /\ t - c.stats.interval_start_time >= Sec(c.stats.csv_interval_sec)
    THEN send_csv_metrics(c, t)
    ELSE c

send_progress_metrics(c, t) ==
    LET st == c.stats
        metrics == [ type |-> "progress",
                     worker_id |-> st.worker_id,
                     requests_completed |-> st.requests_completed,
                     errors |-> st.errors,
                     current_window_latencies |-> st.current_window_latencies,
                     timestamp |-> t ]
    IN  IF st.has_queue /\ t - st.last_print >= Sec(1)
        THEN [c EXCEPT !.metrics_queue = put_nowait(@, metrics),
                       !.stats.current_window_latencies = <<>>,
                       !.stats.last_print = t,
                       !.stats.last_requests = st.requests_completed]
        ELSE c

print_progress(c, t) ==
    LET st == c.stats IN
    IF t - st.last_print >= Sec(1)
    THEN [c EXCEPT !.stdout = Append(@, [line |-> "progress",
                                         requests_completed |-> st.requests_completed,
                                         errors |-> st.errors]),
                   !.stats.current_window_latencies = <<>>,
                   !.stats.last_print = t,
                   !.stats.last_requests = st.requests_completed]
    ELSE c

\* add_latency that leaves interval_requests as it was.
add_latency_uncounted_interval(c, latency, t) ==
    LET c1 == [c EXCEPT !.stats.latencies = Append(@, latency),
                        !.stats.current_window_latencies = Append(@, latency),
                        !.stats.requests_completed = @ + 1]
        c2 == [c1 EXCEPT !.stats.interval_latencies = Append(@, latency)]
    IN  IF c.stats.csv_mode
        THEN (IF c.stats.has_queue THEN check_csv_interval_multiprocess(c2, t)
              ELSE check_csv_interval(c2, t))
        ELSE (IF c.stats.has_queue THEN send_progress_metrics(c1, t)
              ELSE print_progress(c1, t))

\* add_latency, lines 242-260.
add_latency(c, latency, t) ==
    LET c1 == [c EXCEPT !.stats.latencies = Append(@, latency),
                        !.stats.current_window_latencies = Append(@, latency),
                        !.stats.requests_completed = @ + 1]
        c2 == [c1 EXCEPT !.stats.interval_latencies = Append(@, latency),
                         !.stats.interval_requests = @ + 1]
    IN  IF c.stats.csv_mode
        THEN (IF c.stats.has_queue THEN check_csv_interval_multiprocess(c2, t)
              ELSE check_csv_interval(c2, t))
        ELSE (IF c.stats.has_queue THEN send_progress_metrics(c1, t)
              ELSE print_progress(c1, t))

add_error(st) ==
    [st EXCEPT !.errors = @ + 1,
               !.interval_errors = IF st.csv_mode THEN @ + 1 ELSE @]

add_moved(st) ==
    [st EXCEPT !.interval_moved = IF st.csv_mode THEN @ + 1 ELSE @]

add_clusterdown(st) ==
    [st EXCEPT !.interval_clusterdown = IF st.csv_mode THEN @ + 1 ELSE @]

\* str.upper() on the words an error message of the server is made of.
upper(word) ==
    CASE word \in {"moved", "Moved", "MOVED"} -> "MOVED"
      [] word \in {"clusterdown", "ClusterDown", "CLUSTERDOWN"} -> "CLUSTERDOWN"
      [] word \in {"timeout", "Timeout"} -> "TIMEOUT"
      [] OTHER -> word

\* Line 737 and the tests of lines 740 and 742 on a message, a sequence of
\* words: error_msg = str(e).upper(), then "MOVED" in error_msg and
\* "CLUSTERDOWN" in error_msg.
error_msg(message) ==
    [ moved |-> \E i \in DOMAIN message : upper(message[i]) = "MOVED",
      clusterdown |-> \E i \in DOMAIN message : upper(message[i]) = "CLUSTERDOWN" ]

\* The except branch without the interval check of lines 747-751.
handle_exception_without_check(c, e, t) ==
    LET classified ==
            IF e.moved THEN add_moved(c.stats)
            ELSE IF e.clusterdown THEN add_clusterdown(c.stats)
            ELSE c.stats
    IN  [c EXCEPT !.stats = add_error(classified)]

\* The except branch with two independent tests instead of if/elif.
handle_exception_counts_both(c, e, t) ==
    LET moved == IF e.moved THEN add_moved(c.stats) ELSE c.stats
        classified == IF e.clusterdown THEN add_clusterdown(moved) ELSE moved
        c1 == [c EXCEPT !.stats = add_error(classified)]
    IN  IF c.stats.csv_mode
        THEN (IF c.stats.has_queue THEN check_csv_interval_multiprocess(c1, t)
              ELSE check_csv_interval(c1, t))
        ELSE c1

\* The except branch of the request loop, lines 736-752.  An error message e
\* is [moved, clusterdown]: whether str(e).upper() contains each word.
handle_exception(c, e, t) ==
    LET classified ==
            IF e.moved THEN add_moved(c.stats)
            ELSE IF e.clusterdown THEN add_clusterdown(c.stats)
            ELSE c.stats
        c1 == [c EXCEPT !.stats = add_error(classified)]
    IN  IF c.stats.csv_mode
        THEN (IF c.stats.has_queue THEN check_csv_interval_multiprocess(c1, t)
              ELSE check_csv_interval(c1, t))
        ELSE c1

\* ------------------------------------------------------ run_benchmark
\* send_final_metrics blocks on a full queue for at most this many seconds.
FinalPutTimeoutSec == 5

Procs == DOMAIN proc

\* The object of load_custom_commands when no warmup program is loaded
\* (DefaultCommands, lines 887-899): it keeps no warmup state.
DefaultCommands ==
    [program |-> "default", warmup_mode |-> FALSE, warmup_start_hash |-> 0,
     warmup_end_hash |-> 0, warmup_current_hash |-> 0, warmup_completed |-> FALSE]

\* A server on which no hash table was populated.
NoHashTables == [h \in {} |-> 0]
Tasks(w) == DOMAIN task[w]

Ctx(w) == [stats |-> stats[w], stdout |-> stdout, metrics_queue |-> metrics_queue]

Commit(w, c) ==
    /\ stats' = [stats EXCEPT ![w] = c.stats]
    /\ stdout' = c.stdout
    /\ metrics_queue' = c.metrics_queue

NewTask ==
    [pc |-> "start", running |-> TRUE, timer |-> FALSE, deadline |-> 0,
     wake |-> 0, client |-> 0, dispatched |-> 0]

\* Lines 639-662: the statistics and the rate controller are built, the
\* banner or the CSV header is printed.  QPSController.__init__ may end the
\* process with sys.exit(1).
RunBenchmarkStart(w) ==
    /\ proc[w].pc = "start"
    /\ LET cfg == proc[w].config
           multi == proc[w].has_queue
           st == BenchmarkStats_init(cfg.csv_mode, cfg.csv_interval_sec, multi, w, now)
           qc == QPSController_init(cfg, now)
           c == [stats |-> st, stdout |-> stdout, metrics_queue |-> metrics_queue]
           c1 == IF multi THEN c
                 ELSE IF st.csv_mode THEN print_csv_header(c)
                 ELSE [c EXCEPT !.stdout = Append(@, [line |-> "banner"])]
       IN  /\ qps_controller' = [qps_controller EXCEPT ![w] = qc]
           /\ IF qc.sys_exit
              THEN /\ proc' = [proc EXCEPT ![w].pc = "exited", ![w].exit_code = 1]
                   /\ Commit(w, c)
              ELSE /\ proc' = [proc EXCEPT ![w].pc = "connect"]
                   /\ Commit(w, c1)
    /\ UNCHANGED <<now, config, env, main, task, client_pool, shutdown_event, orch, hist,
                   custom_commands, keyspace>>

\* Lines 666-686 and 754-755: one more client is created; after the last one
\* the request tasks are created and gathered.
CreateClient(w) ==
    /\ proc[w].pc = "connect"
    /\ client_pool[w].opened < proc[w].config.pool_size
    /\ client_pool' = [client_pool EXCEPT ![w].opened = @ + 1]
    /\ IF client_pool[w].opened + 1 = proc[w].config.pool_size
       THEN /\ proc' = [proc EXCEPT ![w].pc = "run"]
            /\ task' = [task EXCEPT ![w] = [k \in Tasks(w) |-> NewTask]]
       ELSE UNCHANGED <<proc, task>>
    /\ UNCHANGED <<now, config, env, main, stats, qps_controller, metrics_queue,
                   shutdown_event, orch, stdout, hist,
                   custom_commands, keyspace>>

\* GlideClient.create raises: the exception leaves run_benchmark.  In a
\* worker process worker_process_entry prints it and the process ends
\* normally; in single-process mode it ends the program.
CreateClientRaises(w) ==
    /\ env.connect_fails
    /\ proc[w].pc = "connect"
    /\ proc' = [proc EXCEPT ![w].pc = "raised",
                            ![w].exit_code = IF proc[w].has_queue THEN 0 ELSE 1]
    /\ UNCHANGED <<now, config, env, main, stats, qps_controller, task, client_pool,
                   metrics_queue, shutdown_event, orch, stdout, hist,
                   custom_commands, keyspace>>

\* The loop with a condition that applies the quota to duration runs too.
loop_quota_always(w, k, tk, st, h) ==
    LET cfg == proc[w].config
        continue == tk.running /\ st.requests_completed < cfg.total_requests
        shutdown == proc[w].has_queue /\ shutdown_event
        client_index == st.requests_completed % cfg.pool_size
        th == throttle(qps_controller[w], cfg, now)
        ramped == IF th.qc.last_update # qps_controller[w].last_update THEN 1 ELSE 0
    IN  IF ~continue \/ shutdown
        THEN /\ task' = [task EXCEPT ![w][k] = [tk EXCEPT !.pc = "done"]]
             /\ hist' = [hist EXCEPT ![w] = h]
             /\ UNCHANGED qps_controller
        ELSE /\ qps_controller' = [qps_controller EXCEPT ![w] = th.qc]
             /\ IF th.sleep
                THEN /\ task' = [task EXCEPT ![w][k] =
                                   [tk EXCEPT !.pc = "throttle", !.wake = th.wake,
                                              !.client = client_index]]
                     /\ hist' = [hist EXCEPT ![w] =
                                   [h EXCEPT !.admitted = IF th.stamped THEN 0 ELSE @,
                                             !.ramp_steps = @ + ramped]]
                ELSE /\ task' = [task EXCEPT ![w][k] =
                                   [tk EXCEPT !.pc = "io", !.client = client_index,
                                              !.dispatched = @ + 1]]
                     /\ hist' = [hist EXCEPT ![w] =
                                   [h EXCEPT !.total_attempts = @ + 1,
                                             !.admitted = IF th.stamped THEN 1 ELSE @ + 1,
                                             !.ramp_steps = @ + ramped]]

\* One pass of the while loop of worker(), lines 704-732, from its condition
\* to the next suspension: the task ends, sleeps in throttle(), or has sent
\* its request.  tk is the task, st the statistics and h the history as the
\* pass finds them.
loop(w, k, tk, st, h) ==
    LET cfg == proc[w].config
        continue == tk.running /\
                    (cfg.test_duration > 0 \/ st.requests_completed < cfg.total_requests)
        shutdown == proc[w].has_queue /\ shutdown_event
        client_index == st.requests_completed % cfg.pool_size
        th == throttle(qps_controller[w], cfg, now)
        \* 1 when this call of throttle() took a ramp step
        ramped == IF th.qc.last_update # qps_controller[w].last_update THEN 1 ELSE 0
    IN  IF ~continue \/ shutdown
        THEN /\ task' = [task EXCEPT ![w][k] = [tk EXCEPT !.pc = "done"]]
             /\ hist' = [hist EXCEPT ![w] = h]
             /\ UNCHANGED qps_controller
        ELSE /\ qps_controller' = [qps_controller EXCEPT ![w] = th.qc]
             /\ IF th.sleep
                THEN /\ task' = [task EXCEPT ![w][k] =
                                   [tk EXCEPT !.pc = "throttle", !.wake = th.wake,
                                              !.client = client_index]]
                     /\ hist' = [hist EXCEPT ![w] =
                                   [h EXCEPT !.admitted = IF th.stamped THEN 0 ELSE @,
                                             !.ramp_steps = @ + ramped]]
                ELSE /\ task' = [task EXCEPT ![w][k] =
                                   [tk EXCEPT !.pc = "io", !.client = client_index,
                                              !.dispatched = @ + 1]]
                     /\ hist' = [hist EXCEPT ![w] =
                                   [h EXCEPT !.total_attempts = @ + 1,
                                             !.admitted = IF th.stamped THEN 1 ELSE @ + 1,
                                             !.ramp_steps = @ + ramped]]

\* Lines 690-704: a request task starts, arms its deadline timer and enters
\* the loop.
TaskStart(w, k) ==
    /\ proc[w].pc = "run"
    /\ task[w][k].pc = "start"
    /\ LET d == proc[w].config.test_duration
           tk == [task[w][k] EXCEPT !.timer = (d # 0), !.deadline = now + Sec(d)]
       IN  loop(w, k, tk, stats[w], hist[w])
    /\ UNCHANGED <<now, config, env, main, proc, stats, client_pool, metrics_queue,
                   shutdown_event, orch, stdout,
                   custom_commands, keyspace>>

\* Lines 700-702: the deadline timer of a task fires and flips its flag.
DeadlineFires(w, k) ==
    /\ proc[w].pc = "run"
    /\ task[w][k].timer
    /\ now >= task[w][k].deadline
    /\ task' = [task EXCEPT ![w][k].running = FALSE, ![w][k].timer = FALSE]
    /\ UNCHANGED <<now, config, env, main, proc, stats, qps_controller, client_pool,
                   metrics_queue, shutdown_event, orch, stdout, hist,
                   custom_commands, keyspace>>

\* Lines 168-172 and 715-732: the sleep of throttle() ends; the controller
\* is stamped and the request is sent.
ThrottleWake(w, k) ==
    /\ proc[w].pc = "run"
    /\ task[w][k].pc = "throttle"
    /\ now >= task[w][k].wake
    /\ qps_controller' = [qps_controller EXCEPT ![w] = throttle_resume(@, now)]
    /\ task' = [task EXCEPT ![w][k].pc = "io", ![w][k].dispatched = @ + 1]
    /\ hist' = [hist EXCEPT ![w].total_attempts = @ + 1, ![w].admitted = 1]
    /\ UNCHANGED <<now, config, env, main, proc, stats, client_pool, metrics_queue,
                   shutdown_event, orch, stdout,
                   custom_commands, keyspace>>

Answered(w) == hist[w].succeeded + hist[w].failed

\* 1 when add_latency, which left the context c, tried to send a message
\* (it reset the bucket or the window) and the queue did not take it.
dropped(w, c) ==
    IF /\ stats[w].has_queue
       /\ c.metrics_queue = metrics_queue
       /\ IF stats[w].csv_mode THEN c.stats.interval_latencies = <<>>
          ELSE c.stats.current_window_latencies = <<>>
    THEN 1 ELSE 0

\* Lines 723-735: the request returns without an exception; its latency is
\* recorded and the loop goes on.
RequestReturns(w, k) ==
    /\ proc[w].pc = "run"
    /\ task[w][k].pc = "io"
    /\ Answered(w) < MaxResponses
    /\ \E latency \in env.latencies :
          LET c == add_latency(Ctx(w), latency, now)
          IN  /\ Commit(w, c)
              /\ loop(w, k, task[w][k], c.stats,
                      [hist[w] EXCEPT !.succeeded = @ + 1,
                                      !.dropped = @ + dropped(w, c)])
    /\ UNCHANGED <<now, config, env, main, proc, client_pool, shutdown_event, orch,
                   custom_commands, keyspace>>

\* RequestRaises in which the error leaves the loop and ends the task.
RequestRaises_propagates(w, k) ==
    /\ proc[w].pc = "run"
    /\ task[w][k].pc = "io"
    /\ Answered(w) < MaxResponses
    /\ \E e \in env.errors : Commit(w, handle_exception(Ctx(w), e, now))
    /\ task' = [task EXCEPT ![w][k].pc = "done"]
    /\ hist' = [hist EXCEPT ![w].failed = @ + 1]
    /\ UNCHANGED <<now, config, env, main, proc, qps_controller, client_pool,
                   shutdown_event, orch,
                   custom_commands, keyspace>>

\* Lines 736-752: the request raises; the error is classified and counted
\* and the loop goes on.
RequestRaises(w, k) ==
    /\ proc[w].pc = "run"
    /\ task[w][k].pc = "io"
    /\ Answered(w) < MaxResponses
    /\ \E e \in env.errors :
          LET c == handle_exception(Ctx(w), e, now)
          IN  /\ Commit(w, c)
              /\ loop(w, k, task[w][k], c.stats,
                      [hist[w] EXCEPT
                         !.failed = @ + 1,
                         !.raised_moved = @ + (IF e.moved THEN 1 ELSE 0),
                         !.raised_clusterdown =
                             @ + (IF ~e.moved /\ e.clusterdown THEN 1 ELSE 0)])
    /\ UNCHANGED <<now, config, env, main, proc, client_pool, shutdown_event, orch,
                   custom_commands, keyspace>>

\* Lines 731-735 with a custom program whose execute() catches the error of
\* its command, prints it to standard output and returns False
\* (sample_custom_commands.py lines 120-132, DefaultCommands lines 892-898):
\* the value is not looked at.
CustomReturnsFalse(w, k) ==
    /\ proc[w].pc = "run"
    /\ proc[w].config.command = "custom"
    /\ env.custom_returns_false
    /\ task[w][k].pc = "io"
    /\ Answered(w) < MaxResponses
    /\ \E latency \in env.latencies :
          LET printed == [Ctx(w) EXCEPT !.stdout = Append(@, [line |-> "command error"])]
              c == add_latency(printed, latency, now)
          IN  /\ Commit(w, c)
              /\ loop(w, k, task[w][k], c.stats,
                      [hist[w] EXCEPT !.failed = @ + 1,
                                      !.dropped = @ + dropped(w, c)])
    /\ UNCHANGED <<now, config, env, main, proc, client_pool, shutdown_event, orch,
                   custom_commands, keyspace>>

\* Lines 755-776: every task has ended.  The last interval is flushed, the
\* final metrics are sent (blocking while the queue is full) or the final
\* statistics printed.
GatherReturns(w) ==
    /\ proc[w].pc = "run"
    /\ \A k \in Tasks(w) : task[w][k].pc = "done"
    /\ LET st == stats[w]
           pending == \/ st.interval_latencies # <<>> \/ st.interval_errors > 0
                      \/ st.interval_moved > 0 \/ st.interval_clusterdown > 0
           c == IF st.csv_mode /\ pending
                THEN (IF st.has_queue THEN send_csv_metrics(Ctx(w), now)
                      ELSE emit_csv_line(Ctx(w), now))
                ELSE Ctx(w)
           final == [ type |-> "final",
                      worker_id |-> st.worker_id,
                      requests_completed |-> st.requests_completed,
                      errors |-> st.errors,
                      latencies |-> st.latencies,
                      total_time |-> now - st.start_time ]
       IN  IF st.has_queue
           THEN IF Len(c.metrics_queue) < QueueMaxsize
                THEN /\ Commit(w, [c EXCEPT !.metrics_queue = Append(@, final)])
                     /\ proc' = [proc EXCEPT ![w].pc = "close"]
                ELSE /\ Commit(w, c)
                     /\ proc' = [proc EXCEPT ![w].pc = "final_put",
                                             ![w].put_deadline = now + Sec(FinalPutTimeoutSec)]
           ELSE /\ Commit(w, IF st.csv_mode THEN c
                             ELSE [c EXCEPT !.stdout =
                                      Append(@, [line |-> "final",
                                                 requests_completed |-> st.requests_completed,
                                                 errors |-> st.errors])])
                /\ proc' = [proc EXCEPT ![w].pc = "close"]
    /\ hist' = [hist EXCEPT ![w].drained =
                   stats[w].csv_mode /\
                   (\/ stats[w].interval_latencies # <<>> \/ stats[w].interval_errors > 0
                    \/ stats[w].interval_moved > 0 \/ stats[w].interval_clusterdown > 0)]
    /\ UNCHANGED <<now, config, env, main, qps_controller, task, client_pool,
                   shutdown_event, orch,
                   custom_commands, keyspace>>

\* Line 442: the blocked put of the final message goes through.
FinalPut(w) ==
    /\ proc[w].pc = "final_put"
    /\ Len(metrics_queue) < QueueMaxsize
    /\ LET st == stats[w] IN
       metrics_queue' = Append(metrics_queue,
                               [ type |-> "final",
                                 worker_id |-> st.worker_id,
                                 requests_completed |-> st.requests_completed,
                                 errors |-> st.errors,
                                 latencies |-> st.latencies,
                                 total_time |-> now - st.start_time ])
    /\ proc' = [proc EXCEPT ![w].pc = "close"]
    /\ UNCHANGED <<now, config, env, main, stats, qps_controller, task, client_pool,
                   shutdown_event, orch, stdout, hist,
                   custom_commands, keyspace>>

\* Lines 442-444: the blocked put times out and the message is given up.
FinalPutTimeout(w) ==
    /\ proc[w].pc = "final_put"
    /\ now >= proc[w].put_deadline
    /\ proc' = [proc EXCEPT ![w].pc = "close"]
    /\ UNCHANGED <<now, config, env, main, stats, qps_controller, task, client_pool,
                   metrics_queue, shutdown_event, orch, stdout, hist,
                   custom_commands, keyspace>>

\* Lines 779-780: the next client is closed; after the last one
\* run_benchmark returns.
CloseClient(w) ==
    /\ proc[w].pc = "close"
    /\ client_pool[w].closed < client_pool[w].opened
    /\ client_pool' = [client_pool EXCEPT ![w].closed = @ + 1]
    /\ proc' = [proc EXCEPT ![w].pc =
                   IF client_pool[w].closed + 1 = client_pool[w].opened
                   THEN "returned" ELSE "close"]
    /\ UNCHANGED <<now, config, env, main, stats, qps_controller, task,
                   metrics_queue, shutdown_event, orch, stdout, hist,
                   custom_commands, keyspace>>

\* Time passes.
Tick ==
    /\ now < env.max_time
    /\ now' = now + 1
    /\ UNCHANGED <<config, env, main, proc, stats, qps_controller, task, client_pool,
                   metrics_queue, shutdown_event, orch, stdout, hist,
                   custom_commands, keyspace>>

\* The instants at which a pending timer expires: the sleep of throttle(),
\* the deadline of a task, the blocked put of the final message and the
\* join of the orchestrator.
Timers ==
    UNION {{task[w][k].wake : k \in {j \in Tasks(w) : task[w][j].pc = "throttle"}}
           \cup {task[w][k].deadline : k \in {j \in Tasks(w) : task[w][j].timer}}
           \cup (IF proc[w].pc = "final_put" THEN {proc[w].put_deadline} ELSE {})
           : w \in Procs}
    \cup (IF orch.pc = "join" THEN {orch.join_deadline} ELSE {})

\* Beyond the last tick time passes until the next pending timer expires.
TimerExpires ==
    /\ now >= env.max_time
    /\ \E d \in Timers :
          /\ d > now
          /\ \A e \in Timers : e > now => d <= e
          /\ now' = d
    /\ UNCHANGED <<config, env, main, proc, stats, qps_controller, task, client_pool,
                   metrics_queue, shutdown_event, orch, stdout, hist,
                   custom_commands, keyspace>>

\* ------------------------------------------------------ orchestrator
\* The orchestrator waits this many seconds for a worker after SIGINT.
JoinTimeoutSec == 5

Alive(w) == proc[w].pc \notin {"none", "returned", "exited", "raised", "terminated"}

\* worker_config that gives the whole remainder to the last worker.
worker_config_remainder_last(cfg, n, i) ==
    [cfg EXCEPT
        !.total_requests = cfg.total_requests \div n
                           + (IF i = n - 1 THEN cfg.total_requests % n ELSE 0),
        !.qps = IF cfg.qps > 0 THEN cfg.qps \div n ELSE @,
        !.start_qps = IF cfg.start_qps > 0 THEN cfg.start_qps \div n ELSE @,
        !.end_qps = IF cfg.end_qps > 0 THEN cfg.end_qps \div n ELSE @]

\* worker_config that divides the tasks among the workers as well.
worker_config_divides_threads(cfg, n, i) ==
    [cfg EXCEPT
        !.total_requests = cfg.total_requests \div n
                           + (IF i < cfg.total_requests % n THEN 1 ELSE 0),
        !.qps = IF cfg.qps > 0 THEN cfg.qps \div n ELSE @,
        !.start_qps = IF cfg.start_qps > 0 THEN cfg.start_qps \div n ELSE @,
        !.end_qps = IF cfg.end_qps > 0 THEN cfg.end_qps \div n ELSE @,
        !.num_threads = Max(1, cfg.num_threads \div n)]

\* Lines 1071-1087: the configuration of worker i out of n.
worker_config(cfg, n, i) ==
    [cfg EXCEPT
        !.total_requests = cfg.total_requests \div n
                           + (IF i < cfg.total_requests % n THEN 1 ELSE 0),
        !.qps = IF cfg.qps > 0 THEN cfg.qps \div n ELSE @,
        !.start_qps = IF cfg.start_qps > 0 THEN cfg.start_qps \div n ELSE @,
        !.end_qps = IF cfg.end_qps > 0 THEN cfg.end_qps \div n ELSE @]

RECURSIVE ConcatOver(_, _, _)
\* The concatenation of f[x][field] for x in S, in ascending order of x.
ConcatOver(f, field, S) ==
    IF S = {} THEN <<>>
    ELSE LET x == CHOOSE y \in S : \A z \in S : y <= z
         IN  f[x][field] \o ConcatOver(f, field, S \ {x})

RECURSIVE SumField(_, _, _)
SumField(f, field, S) ==
    IF S = {} THEN 0
    ELSE LET x == CHOOSE y \in S : TRUE
         IN  f[x][field] + SumField(f, field, S \ {x})

\* aggregate_csv_metrics that reports the total duration instead of the mean.
aggregate_csv_metrics_total_duration(worker_metrics) ==
    LET S == DOMAIN worker_metrics IN
    [ latencies |-> ConcatOver(worker_metrics, "interval_latencies", S),
      requests |-> SumField(worker_metrics, "interval_requests", S),
      errors |-> SumField(worker_metrics, "interval_errors", S),
      moved |-> SumField(worker_metrics, "interval_moved", S),
      clusterdown |-> SumField(worker_metrics, "interval_clusterdown", S),
      disconnects |-> SumField(worker_metrics, "interval_disconnects", S),
      duration |-> <<SumField(worker_metrics, "interval_duration", S), 1>> ]

\* aggregate_csv_metrics over the pending messages (worker_id -> message).
aggregate_csv_metrics(worker_metrics) ==
    LET S == DOMAIN worker_metrics IN
    [ latencies |-> ConcatOver(worker_metrics, "interval_latencies", S),
      requests |-> SumField(worker_metrics, "interval_requests", S),
      errors |-> SumField(worker_metrics, "interval_errors", S),
      moved |-> SumField(worker_metrics, "interval_moved", S),
      clusterdown |-> SumField(worker_metrics, "interval_clusterdown", S),
      disconnects |-> SumField(worker_metrics, "interval_disconnects", S),
      \* the average duration total_duration / len(worker_metrics)
      duration |-> <<SumField(worker_metrics, "interval_duration", S), Cardinality(S)>> ]

emit_aggregated_csv_line(out, timestamp, aggregated) ==
    Append(out, csv_row(timestamp,
                        request_rate(aggregated.requests,
                                     aggregated.duration[1], aggregated.duration[2]),
                        aggregated.latencies, aggregated.errors, aggregated.moved,
                        aggregated.clusterdown, aggregated.disconnects))

\* A map that forgets every entry but the new one.
Store_only_last(f, x, v) == [y \in {x} |-> v]

\* f with x mapped to v, x added to the domain when new.
Store(f, x, v) == [y \in DOMAIN f \cup {x} |-> IF y = x THEN v ELSE f[y]]

Empty == [x \in {} |-> 0]

OrchInit ==
    [ pc |-> "none", spawned |-> 0, start_time |-> 0, last_print |-> 0,
      worker_state |-> Empty, all_latencies |-> <<>>,
      current_window_latencies |-> <<>>, interval_start |-> 0,
      interval_worker_metrics |-> Empty, interrupted |-> FALSE,
      join_index |-> 0, join_deadline |-> 0 ]

\* load_custom_commands, lines 873-926.  The file given with
\* --custom-command-file is "none" (not given), "missing" (no such path),
\* "broken" (it cannot be imported or has no CustomCommands class) or
\* "loadable".  Without a file an instance of DefaultCommands is returned; a
\* missing or broken file ends the program with sys.exit(1).
load_custom_commands(filepath) ==
    CASE filepath = "none" -> [sys_exit |-> FALSE, custom_commands |-> "DefaultCommands"]
      [] filepath = "loadable" -> [sys_exit |-> FALSE, custom_commands |-> "CustomCommands"]
      [] OTHER -> [sys_exit |-> TRUE, custom_commands |-> "None"]

\* bool(custom_commands): an instance of either class is true.
truthy(obj) == obj # "None"

\* main(), lines 1279-1339: the custom commands are loaded, the configuration
\* is built and validated (lines 1310-1312), and the benchmark is run in this
\* process or handed to the orchestrator, which prints the banner or the CSV
\* header (lines 1049-1066).
MainStart ==
    /\ main.pc = "start"
    /\ LET loaded == load_custom_commands(config.custom_command_file)
           rejected == \/ loaded.sys_exit
                       \/ config.command = "custom" /\ ~truthy(loaded.custom_commands)
       IN
       IF rejected
       THEN /\ main' = [pc |-> "exited", exit_code |-> 1]
            /\ UNCHANGED <<proc, orch, stdout>>
       ELSE
       IF config.num_processes = 1
       THEN /\ main' = [main EXCEPT !.pc = "single"]
            /\ proc' = [proc EXCEPT ![0].pc = "start", ![0].config = config,
                                    ![0].has_queue = FALSE]
            /\ UNCHANGED <<orch, stdout>>
       ELSE /\ main' = [main EXCEPT !.pc = "orchestrator"]
            /\ orch' = [orch EXCEPT !.pc = "spawn"]
            /\ stdout' = Append(stdout, [line |-> IF config.csv_mode THEN "header"
                                                  ELSE "banner"])
            /\ UNCHANGED proc
    /\ UNCHANGED <<now, config, env, stats, qps_controller, task, client_pool,
                   metrics_queue, shutdown_event, hist,
                   custom_commands, keyspace>>

\* The program ends: with the status of run_benchmark in single-process mode
\* (SystemExit and exceptions pass through asyncio.run), with 0 when the
\* orchestrator returns, with 1 when the orchestrator re-raises (line 1270).
MainExit ==
    /\ \/ /\ main.pc = "single"
          /\ proc[0].pc \in {"returned", "exited", "raised"}
          /\ main' = [pc |-> "exited", exit_code |-> proc[0].exit_code]
       \/ /\ main.pc = "orchestrator"
          /\ orch.pc = "returned"
          /\ main' = [pc |-> "exited", exit_code |-> 0]
       \/ /\ main.pc = "orchestrator"
          /\ orch.pc = "raised"
          /\ main' = [pc |-> "exited", exit_code |-> 1]
    /\ UNCHANGED <<now, config, env, proc, stats, qps_controller, task, client_pool,
                   metrics_queue, shutdown_event, orch, stdout, hist,
                   custom_commands, keyspace>>

\* Lines 1070-1107: the next worker process is started; after the last one
\* the aggregation state is set up.
Spawn ==
    /\ orch.pc = "spawn"
    /\ LET i == orch.spawned
           n == config.num_processes
       IN  /\ proc' = [proc EXCEPT ![i].pc = "start",
                                   ![i].config = worker_config(config, n, i),
                                   ![i].has_queue = TRUE]
           /\ orch' = IF i + 1 = n
                      THEN [orch EXCEPT !.spawned = i + 1, !.pc = "poll",
                                        !.start_time = now, !.last_print = now,
                                        !.interval_start = now]
                      ELSE [orch EXCEPT !.spawned = i + 1]
    /\ UNCHANGED <<now, config, env, main, stats, qps_controller, task, client_pool,
                   metrics_queue, shutdown_event, stdout, hist,
                   custom_commands, keyspace>>

RECURSIVE drain(_, _, _)
\* Lines 1193-1203: the messages left in the queue q; final messages extend
\* all_latencies, csv_interval messages are stored, the rest is dropped.
drain(q, all_latencies, pending) ==
    IF q = <<>> THEN [all_latencies |-> all_latencies, pending |-> pending]
    ELSE LET m == Head(q) IN
         IF m.type = "final"
         THEN drain(Tail(q), all_latencies \o m.latencies, pending)
         ELSE IF m.type = "csv_interval"
         THEN drain(Tail(q), all_latencies, Store(pending, m.worker_id, m))
         ELSE drain(Tail(q), all_latencies, pending)

\* The summary lines 1213-1254 print.
final_summary(worker_state) ==
    [ line |-> "final",
      requests_completed |-> SumField(worker_state, "requests_completed", DOMAIN worker_state),
      errors |-> SumField(worker_state, "errors", DOMAIN worker_state) ]

\* Lines 1110 and 1188-1254: the loop condition.  While a worker is alive the
\* orchestrator goes on to wait for a message; otherwise it joins the
\* workers, drains the queue, emits the last row and prints the summary.
OrchLoopCheck ==
    /\ orch.pc = "poll"
    /\ IF \E w \in Procs : Alive(w)
       THEN /\ orch' = [orch EXCEPT !.pc = "get"]
            /\ UNCHANGED <<metrics_queue, stdout>>
       ELSE LET d == drain(metrics_queue, orch.all_latencies,
                           orch.interval_worker_metrics)
                rows == IF config.csv_mode /\ DOMAIN d.pending # {}
                        THEN emit_aggregated_csv_line(stdout, now \div TicksPerSec,
                                                      aggregate_csv_metrics(d.pending))
                        ELSE stdout
            IN  /\ metrics_queue' = <<>>
                /\ orch' = [orch EXCEPT !.pc = "returned",
                                        !.all_latencies = d.all_latencies,
                                        !.interval_worker_metrics = d.pending]
                /\ stdout' = IF config.csv_mode THEN rows
                             ELSE Append(rows, final_summary(orch.worker_state))
    /\ UNCHANGED <<now, config, env, main, proc, stats, qps_controller, task,
                   client_pool, shutdown_event, hist,
                   custom_commands, keyspace>>

\* Lines 1112-1182: a message is taken from the queue and handled.
OrchGet ==
    /\ orch.pc = "get"
    /\ metrics_queue # <<>>
    /\ metrics_queue' = Tail(metrics_queue)
    /\ LET metrics == Head(metrics_queue) IN
       CASE metrics.type = "progress" ->
              LET ws == Store(orch.worker_state, metrics.worker_id,
                              [requests_completed |-> metrics.requests_completed,
                               errors |-> metrics.errors])
                  window == orch.current_window_latencies
                            \o metrics.current_window_latencies
                  due == ~config.csv_mode /\ now - orch.last_print >= Sec(1)
                  \* line 1143 divides by total_requests; the inner except
                  \* swallows the ZeroDivisionError
                  printed == due /\ config.total_requests # 0
              IN  /\ orch' = [orch EXCEPT
                                !.pc = "poll",
                                !.worker_state = ws,
                                !.current_window_latencies =
                                    IF printed THEN <<>> ELSE window,
                                !.last_print = IF printed THEN now ELSE @]
                  /\ stdout' = IF printed
                               THEN Append(stdout,
                                      [line |-> "progress",
                                       requests_completed |->
                                          SumField(ws, "requests_completed", DOMAIN ws),
                                       errors |-> SumField(ws, "errors", DOMAIN ws)])
                               ELSE stdout
         [] metrics.type = "csv_interval" ->
              LET pending == Store(orch.interval_worker_metrics,
                                   metrics.worker_id, metrics)
                  emit == \/ Cardinality(DOMAIN pending) = config.num_processes
                          \/ now - orch.interval_start >= Sec(config.csv_interval_sec)
              IN  /\ orch' = [orch EXCEPT
                                !.pc = "poll",
                                !.interval_worker_metrics =
                                    IF emit THEN Empty ELSE pending,
                                !.interval_start = IF emit THEN now ELSE @]
                  /\ stdout' = IF emit
                               THEN emit_aggregated_csv_line(stdout, now \div TicksPerSec,
                                                             aggregate_csv_metrics(pending))
                               ELSE stdout
         [] metrics.type = "final" ->
              /\ orch' = [orch EXCEPT !.pc = "poll",
                                      !.all_latencies = @ \o metrics.latencies]
              /\ UNCHANGED stdout
    /\ UNCHANGED <<now, config, env, main, proc, stats, qps_controller, task,
                   client_pool, shutdown_event, hist,
                   custom_commands, keyspace>>

\* Lines 1112 and 1184-1186: no message came within the timeout.
OrchGetTimeout ==
    /\ orch.pc = "get"
    /\ metrics_queue = <<>>
    /\ orch' = [orch EXCEPT !.pc = "poll"]
    /\ UNCHANGED <<now, config, env, main, proc, stats, qps_controller, task,
                   client_pool, metrics_queue, shutdown_event, stdout, hist,
                   custom_commands, keyspace>>

\* Lines 1256-1258: SIGINT reaches the orchestrator in its loop; the handler
\* sets the shutdown event and starts to join the workers.
OrchSigint ==
    /\ env.sigint
    /\ orch.pc \in {"poll", "get"}
    /\ shutdown_event' = TRUE
    /\ orch' = [orch EXCEPT !.pc = "join", !.interrupted = TRUE, !.join_index = 0,
                            !.join_deadline = now + Sec(JoinTimeoutSec)]
    /\ UNCHANGED <<now, config, env, main, proc, stats, qps_controller, task,
                   client_pool, metrics_queue, stdout, hist,
                   custom_commands, keyspace>>

\* The orchestrator after worker join_index was joined or terminated.
next_join(o) ==
    IF o.join_index + 1 = config.num_processes
    THEN [o EXCEPT !.pc = "returned", !.join_index = @ + 1]
    ELSE [o EXCEPT !.join_index = @ + 1, !.join_deadline = now + Sec(JoinTimeoutSec)]

\* Lines 1259-1260: the worker being joined has exited.
OrchJoin ==
    /\ orch.pc = "join"
    /\ ~Alive(orch.join_index)
    /\ orch' = next_join(orch)
    /\ UNCHANGED <<now, config, env, main, proc, stats, qps_controller, task,
                   client_pool, metrics_queue, shutdown_event, stdout, hist,
                   custom_commands, keyspace>>

\* OrchTerminate that goes on to the next worker without p.terminate().
OrchTerminate_without_terminate ==
    /\ orch.pc = "join"
    /\ Alive(orch.join_index)
    /\ now >= orch.join_deadline
    /\ orch' = next_join(orch)
    /\ UNCHANGED <<now, config, env, main, proc, stats, qps_controller, task,
                   client_pool, metrics_queue, shutdown_event, stdout, hist,
                   custom_commands, keyspace>>

\* Lines 1260-1263: the join timed out and the worker is terminated.
OrchTerminate ==
    /\ orch.pc = "join"
    /\ Alive(orch.join_index)
    /\ now >= orch.join_deadline
    /\ proc' = [proc EXCEPT ![orch.join_index].pc = "terminated"]
    /\ orch' = next_join(orch)
    /\ UNCHANGED <<now, config, env, main, stats, qps_controller, task,
                   client_pool, metrics_queue, shutdown_event, stdout, hist,
                   custom_commands, keyspace>>

\* ------------------------------------------------------ specifications
\* The configuration main() builds when only the defaults apply.
BaseConfig ==
    [ total_requests |-> 1, test_duration |-> 0,
      qps |-> 0, start_qps |-> 0, end_qps |-> 0,
      qps_change_interval |-> 0, qps_change |-> 0,
      qps_ramp_mode |-> "linear", qps_ramp_factor |-> <<0, 1>>,
      csv_mode |-> FALSE, csv_interval_sec |-> 0,
      pool_size |-> 1, num_threads |-> 1, command |-> "set",
      custom_command_file |-> "none",
      num_processes |-> 1 ]

\* An environment: the latencies a request may measure, the errors a request
\* may raise, whether creating a client may fail, whether the custom
\* program may return False, whether SIGINT may arrive, and the last tick.
BaseEnv ==
    [ latencies |-> {1}, errors |-> {[moved |-> FALSE, clusterdown |-> FALSE]},
      connect_fails |-> FALSE, custom_returns_false |-> FALSE,
      sigint |-> FALSE, orch_error |-> FALSE, max_time |-> MaxTime ]

\* The state at process start, for configuration cfg in environment e.
InitWith(cfg, e) ==
    /\ now = 0
    /\ config = cfg
    /\ env = e
    /\ main = [pc |-> "start", exit_code |-> 0]
    /\ proc = [w \in 0 .. cfg.num_processes - 1 |->
                 [pc |-> "none", exit_code |-> 0, config |-> cfg,
                  has_queue |-> FALSE, put_deadline |-> 0]]
    /\ stats = [w \in 0 .. cfg.num_processes - 1 |->
                  BenchmarkStats_init(FALSE, 0, FALSE, w, 0)]
    /\ qps_controller = [w \in 0 .. cfg.num_processes - 1 |->
                           QPSController_init(BaseConfig, 0)]
    /\ task = [w \in 0 .. cfg.num_processes - 1 |->
                 [k \in 0 .. cfg.num_threads - 1 |-> [NewTask EXCEPT !.pc = "none"]]]
    /\ client_pool = [w \in 0 .. cfg.num_processes - 1 |-> [opened |-> 0, closed |-> 0]]
    /\ metrics_queue = <<>>
    /\ shutdown_event = FALSE
    /\ orch = OrchInit
    /\ stdout = <<>>
    /\ custom_commands = [w \in DOMAIN proc |-> DefaultCommands]
    /\ keyspace = NoHashTables
    /\ hist = [w \in 0 .. cfg.num_processes - 1 |->
                 [total_attempts |-> 0, succeeded |-> 0, failed |-> 0, admitted |-> 0,
                  drained |-> FALSE, dropped |-> 0, ramp_steps |-> 0,
                  raised_moved |-> 0, raised_clusterdown |-> 0]]

\* Single-process mode without CSV output: quota runs of every command,
\* pools of several clients, duration runs and rate-limited runs, against a
\* server that may fail.
SpecConfigs ==
    {[BaseConfig EXCEPT !.total_requests = n, !.num_threads = m, !.command = c] :
        n \in 1 .. MaxRequests, m \in 1 .. MaxThreads, c \in {"set", "get", "custom"}}
    \cup {[BaseConfig EXCEPT !.pool_size = p] : p \in 1 .. MaxPool}
    \cup {[BaseConfig EXCEPT !.test_duration = 1, !.qps = q, !.num_threads = m] :
            q \in {0, 1}, m \in 1 .. MaxThreads}
    \cup {[BaseConfig EXCEPT !.total_requests = n, !.qps = 1, !.num_threads = m] :
            n \in 1 .. MaxRequests, m \in 1 .. MaxThreads}

Init ==
    \E cfg \in SpecConfigs :
        InitWith(cfg, [BaseEnv EXCEPT !.connect_fails = TRUE,
                                      !.custom_returns_false = TRUE])

Next ==
    \/ MainStart
    \/ MainExit
    \/ \E w \in Procs : RunBenchmarkStart(w)
    \/ \E w \in Procs : CreateClient(w)
    \/ \E w \in Procs : CreateClientRaises(w)
    \/ \E w \in Procs : \E k \in Tasks(w) : TaskStart(w, k)
    \/ \E w \in Procs : \E k \in Tasks(w) : DeadlineFires(w, k)
    \/ \E w \in Procs : \E k \in Tasks(w) : ThrottleWake(w, k)
    \/ \E w \in Procs : \E k \in Tasks(w) : RequestReturns(w, k)
    \/ \E w \in Procs : \E k \in Tasks(w) : RequestRaises(w, k)
    \/ \E w \in Procs : \E k \in Tasks(w) : CustomReturnsFalse(w, k)
    \/ \E w \in Procs : GatherReturns(w)
    \/ \E w \in Procs : CloseClient(w)
    \/ Tick

Spec == Init /\ [][Next]_vars

\* ------------------------------------------------------ properties
QuotaMode == config.test_duration = 0

InFlight(w) == Cardinality({k \in Tasks(w) : task[w][k].pc = "io"})

TotalCompleted == SumField(stats, "requests_completed", Procs)
TotalErrors == SumField(stats, "errors", Procs)
TotalAttempts == SumField(hist, "total_attempts", Procs)
TotalInFlight == SumOver([w \in Procs |-> InFlight(w)], Procs)

\* C1: in quota mode (test_duration = 0, N_total > 0) the sum over all
\* workers of requests_completed is at most N_total in every reachable state.
C1_CompletedWithinQuota ==
    (QuotaMode /\ config.total_requests > 0) =>
        TotalCompleted <= config.total_requests

\* C2: the requests sent to the server are the completed ones plus the
\* errors (plus those still in flight), and in quota mode they never exceed
\* N_total: a failed request uses up the quota like a successful one.
C2_AttemptsWithinQuota ==
    /\ TotalAttempts = TotalCompleted + TotalErrors + TotalInFlight
    /\ QuotaMode => TotalAttempts <= config.total_requests

\* C3: every request that succeeded left exactly one latency sample and no
\* error, every request that failed exactly one error and no sample; a
\* custom execute() that returns False without raising is a failed request.
C3_OneRecordPerOutcome ==
    \A w \in Procs :
        /\ Len(stats[w].latencies) = hist[w].succeeded
        /\ stats[w].errors = hist[w].failed

\* C5: once the deadline of a task has fired (its running flag is false) the
\* task sends no new request, also when it was asleep in throttle() then.
C5_NoDispatchAfterDeadline ==
    [][\A w \in Procs : \A k \in Tasks(w) :
          (config.test_duration > 0 /\ ~task[w][k].running) =>
              task'[w][k].dispatched = task[w][k].dispatched]_vars

\* C8: when run_benchmark of a worker has ended, on whatever path, every
\* connection it opened has been closed.
C8_ConnectionsClosedOnExit ==
    \A w \in Procs :
        proc[w].pc \in {"returned", "raised", "exited"} =>
            client_pool[w].closed = client_pool[w].opened

\* ------------------------------------------------------ rate control
\* Single-process runs under a constant rate limit, with one and with
\* several request tasks on the one controller.
QpsConfigs ==
    {[BaseConfig EXCEPT !.total_requests = MaxResponses, !.test_duration = d,
                        !.qps = q, !.num_threads = m] :
        d \in {0, 1}, q \in 1 .. MaxQps, m \in 1 .. MaxThreads}

InitQps == \E cfg \in QpsConfigs : InitWith(cfg, BaseEnv)

NextQps ==
    \/ MainStart
    \/ MainExit
    \/ \E w \in Procs : RunBenchmarkStart(w)
    \/ \E w \in Procs : CreateClient(w)
    \/ \E w \in Procs : \E k \in Tasks(w) : TaskStart(w, k)
    \/ \E w \in Procs : \E k \in Tasks(w) : DeadlineFires(w, k)
    \/ \E w \in Procs : \E k \in Tasks(w) : ThrottleWake(w, k)
    \/ \E w \in Procs : \E k \in Tasks(w) : RequestReturns(w, k)
    \/ \E w \in Procs : \E k \in Tasks(w) : RequestRaises(w, k)
    \/ \E w \in Procs : GatherReturns(w)
    \/ \E w \in Procs : CloseClient(w)
    \/ Tick

SpecQps == InitQps /\ [][NextQps]_vars

\* C4: under a constant ceiling Q > 0 the throttle() calls that have
\* returned since second_start was last stamped never exceed Q, however the
\* tasks asleep in throttle() interleave.
C4_AdmittedWithinCeiling ==
    \A w \in Procs :
        qps_controller[w].current_qps > 0 =>
            hist[w].admitted <= qps_controller[w].current_qps

\* One task is asleep in throttle() because the ceiling of the current
\* interval is used up, another has a request of its own in flight, and
\* more requests than one ceiling allows have been sent over the run.
C4_Witness ==
    \E w \in Procs : \E k1, k2 \in Tasks(w) :
        /\ k1 # k2
        /\ task[w][k1].pc = "throttle"
        /\ task[w][k2].pc = "io"
        /\ task[w][k2].dispatched >= 2
        /\ hist[w].admitted = qps_controller[w].current_qps
        /\ hist[w].total_attempts > qps_controller[w].current_qps

\* ------------------------------------------------------ CSV, one process
\* Single-process CSV runs: every interval length, one and several request
\* tasks, quota and duration runs, against a server that may fail.
CsvConfigs ==
    {[BaseConfig EXCEPT !.csv_mode = TRUE, !.csv_interval_sec = i,
                        !.total_requests = MaxResponses, !.test_duration = d,
                        !.num_threads = m] :
        i \in 0 .. MaxCsvInterval, d \in {0, 1}, m \in 1 .. MaxThreads}

InitCsv ==
    \E cfg \in CsvConfigs :
        InitWith(cfg, [BaseEnv EXCEPT !.errors = {[moved |-> FALSE, clusterdown |-> FALSE],
                                                  [moved |-> TRUE, clusterdown |-> FALSE]}])

NextCsv ==
    \/ MainStart
    \/ MainExit
    \/ \E w \in Procs : RunBenchmarkStart(w)
    \/ \E w \in Procs : CreateClient(w)
    \/ \E w \in Procs : \E k \in Tasks(w) : TaskStart(w, k)
    \/ \E w \in Procs : \E k \in Tasks(w) : DeadlineFires(w, k)
    \/ \E w \in Procs : \E k \in Tasks(w) : RequestReturns(w, k)
    \/ \E w \in Procs : \E k \in Tasks(w) : RequestRaises(w, k)
    \/ \E w \in Procs : GatherReturns(w)
    \/ \E w \in Procs : CloseClient(w)
    \/ Tick

SpecCsv == InitCsv /\ [][NextCsv]_vars

\* The data rows printed so far.
Rows == SelectSeq(stdout, LAMBDA l : l.line = "row")

\* C9 as stated: in single-worker CSV mode every data row, the row of the
\* final drain included, has a timestamp strictly greater than the row
\* before it, for every csv_interval_sec.
C9_TimestampsStrictlyIncrease ==
    \A i \in 1 .. Len(Rows) - 1 : Rows[i].timestamp < Rows[i + 1].timestamp

\* C9 as amended: the timestamps of the data rows never decrease, and with
\* csv_interval_sec >= 1 every row the interval check emits has a timestamp
\* strictly greater than the row before it; the row of the final drain may
\* repeat the timestamp of the row before it.
C9_TimestampsNonDecreasing ==
    \A i \in 1 .. Len(Rows) - 1 :
        /\ Rows[i].timestamp <= Rows[i + 1].timestamp
        /\ (config.csv_interval_sec >= 1 /\ ~(i + 1 = Len(Rows) /\ hist[0].drained))
              => Rows[i].timestamp < Rows[i + 1].timestamp

\* Two rows of the interval check are followed by the row of the final drain.
C9_Witness ==
    /\ config.csv_interval_sec >= 1
    /\ Len(Rows) >= 3
    /\ hist[0].drained

\* ------------------------------------------------------ several processes
\* The ramp is exponential and no factor is configured (lines 94-107).
ConfigError(cfg) ==
    /\ cfg.qps_ramp_mode = "exponential"
    /\ cfg.start_qps > 0 /\ cfg.end_qps > 0 /\ cfg.qps_change_interval > 0
    /\ ~FactorPositive(cfg.qps_ramp_factor)

\* Runs of main() over several worker processes: human output, and CSV
\* output with the interval that makes every completion send a message.
MpConfigs ==
    {[BaseConfig EXCEPT !.num_processes = n, !.total_requests = n + 1,
                        !.csv_mode = c] :
        n \in 2 .. MaxProcesses, c \in BOOLEAN}

\* Runs of main() with an exponential ramp and no factor, in one and in
\* several processes.
ErrorConfigs ==
    {[BaseConfig EXCEPT !.num_processes = n, !.qps_ramp_mode = "exponential",
                        !.start_qps = n, !.end_qps = 2 * n,
                        !.qps_change_interval = 1] :
        n \in 1 .. MaxProcesses}

\* Human runs are followed up to the last tick, where progress messages are
\* due; CSV runs and the runs in which SIGINT arrives are followed at their
\* first instant and at the instants their timers expire.
InitMp ==
    \/ \E cfg \in MpConfigs \cup ErrorConfigs :
          InitWith(cfg, [BaseEnv EXCEPT
                           !.max_time = IF cfg.csv_mode THEN 0 ELSE MaxTimeMp])
    \/ \E cfg \in MpConfigs :
          InitWith([cfg EXCEPT !.total_requests = cfg.num_processes],
                   [BaseEnv EXCEPT !.sigint = TRUE, !.max_time = 0])

NextMp ==
    \/ MainStart
    \/ MainExit
    \/ Spawn
    \/ OrchLoopCheck
    \/ OrchGet
    \/ OrchGetTimeout
    \/ OrchSigint
    \/ OrchJoin
    \/ OrchTerminate
    \/ \E w \in Procs : RunBenchmarkStart(w)
    \/ \E w \in Procs : CreateClient(w)
    \/ \E w \in Procs : \E k \in Tasks(w) : TaskStart(w, k)
    \/ \E w \in Procs : \E k \in Tasks(w) : RequestReturns(w, k)
    \/ \E w \in Procs : GatherReturns(w)
    \/ \E w \in Procs : FinalPut(w)
    \/ \E w \in Procs : FinalPutTimeout(w)
    \/ \E w \in Procs : CloseClient(w)
    \/ Tick
    \/ TimerExpires

SpecMp == InitMp /\ [][NextMp]_vars

\* C6: when SIGINT reaches the orchestrator while workers run, it sets the
\* shutdown signal, drains the messages left in the queue, in CSV mode ends
\* its output with the row of the pending interval data, and in human mode
\* prints the final summary, before it returns.
C6_SigintFullShutdown ==
    (orch.pc = "returned" /\ orch.interrupted) =>
        /\ shutdown_event
        /\ metrics_queue = <<>>
        /\ (config.csv_mode /\ DOMAIN orch.interval_worker_metrics # {})
              => (stdout # <<>> /\ stdout[Len(stdout)].line = "row")
        /\ ~config.csv_mode
              => (stdout # <<>> /\ stdout[Len(stdout)].line = "final")

\* C7: with an exponential ramp and no factor no worker process is started,
\* no request is sent, and the program exits with code 1, in one process
\* and in several.
C7_ConfigErrorRejected ==
    ConfigError(config) =>
        /\ orch.spawned = 0
        /\ TotalAttempts = 0
        /\ main.pc = "exited" => main.exit_code = 1

\* The interval bucket and the progress window of worker w are due: the
\* next completion sends a message.
SendDue(w) ==
    /\ stats[w].has_queue
    /\ IF stats[w].csv_mode
       THEN now - stats[w].interval_start_time >= Sec(stats[w].csv_interval_sec)
       ELSE now - stats[w].last_print >= Sec(1)

\* C10: a completion that sends a csv_interval or progress message never
\* blocks: the queue takes the message when it has room and is left as it
\* was when it is full; either way the bucket or the window is reset, and
\* the task goes on with its loop.  A worker blocks on the queue only with
\* its final message, after all its tasks have ended.
C10_SendNeverBlocks ==
    [][\A w \in Procs :
        /\ (stats'[w].requests_completed > stats[w].requests_completed /\ SendDue(w)) =>
              /\ IF Len(metrics_queue) < QueueMaxsize
                 THEN /\ Len(metrics_queue') = Len(metrics_queue) + 1
                      /\ SubSeq(metrics_queue', 1, Len(metrics_queue)) = metrics_queue
                      /\ metrics_queue'[Len(metrics_queue')].worker_id = w
                      /\ metrics_queue'[Len(metrics_queue')].type =
                            IF stats[w].csv_mode THEN "csv_interval" ELSE "progress"
                 ELSE metrics_queue' = metrics_queue
              /\ IF stats[w].csv_mode
                 THEN /\ stats'[w].interval_latencies = <<>>
                      /\ stats'[w].interval_requests = 0
                      /\ stats'[w].interval_errors = 0
                      /\ stats'[w].interval_moved = 0
                      /\ stats'[w].interval_clusterdown = 0
                      /\ stats'[w].interval_disconnects = 0
                      /\ stats'[w].interval_start_time = now
                 ELSE /\ stats'[w].current_window_latencies = <<>>
                      /\ stats'[w].last_print = now
                      /\ stats'[w].last_requests = stats'[w].requests_completed
              /\ proc'[w].pc = "run"
              /\ \E k \in Tasks(w) :
                    /\ task[w][k].pc = "io"
                    /\ task'[w][k].pc \in {"io", "throttle", "done"}
        /\ proc'[w].pc = "final_put" => \A k \in Tasks(w) : task'[w][k].pc = "done"
      ]_vars

\* A worker has lost a message to the full queue and has sent its next
\* request.
C10_Witness ==
    \E w \in Procs : \E k \in Tasks(w) :
        /\ hist[w].dropped >= 1
        /\ task[w][k].pc = "io"
        /\ task[w][k].dispatched >= 2

\* ------------------------------------------------------ teardown flush
\* CSV runs whose interval outlasts the requests, so that the bucket is
\* still filled at teardown: one process followed up to the last tick, and
\* several processes at their first instant, where a worker may have no
\* request at all and the queue may be full.
FlushConfigs ==
    {[BaseConfig EXCEPT !.csv_mode = TRUE, !.csv_interval_sec = 1,
                        !.total_requests = r] : r \in 1 .. MaxRequests}
    \cup {[BaseConfig EXCEPT !.csv_mode = TRUE, !.csv_interval_sec = 1,
                             !.num_processes = n, !.total_requests = n - d] :
            n \in 2 .. MaxProcesses, d \in {0, 1}}

\* Error messages a server sends, as words in the letter case it sends them.
Messages ==
    { <<"timeout">>, <<"Moved", "3999">>, <<"MOVED", "3999">>, <<"ClusterDown">>,
      <<"clusterdown">>, <<"CLUSTERDOWN", "moved">> }

InitFlush ==
    \E cfg \in FlushConfigs :
        InitWith(cfg, [BaseEnv EXCEPT
                         !.errors = {error_msg(m) : m \in Messages},
                         !.max_time = IF cfg.num_processes = 1 THEN MaxTimeMp ELSE 0])

NextFlush ==
    \/ MainStart
    \/ MainExit
    \/ Spawn
    \/ OrchLoopCheck
    \/ OrchGet
    \/ OrchGetTimeout
    \/ \E w \in Procs : RunBenchmarkStart(w)
    \/ \E w \in Procs : CreateClient(w)
    \/ \E w \in Procs : \E k \in Tasks(w) : TaskStart(w, k)
    \/ \E w \in Procs : \E k \in Tasks(w) : RequestReturns(w, k)
    \/ \E w \in Procs : \E k \in Tasks(w) : RequestRaises(w, k)
    \/ \E w \in Procs : GatherReturns(w)
    \/ \E w \in Procs : FinalPut(w)
    \/ \E w \in Procs : FinalPutTimeout(w)
    \/ \E w \in Procs : CloseClient(w)
    \/ Tick
    \/ TimerExpires

SpecFlush == InitFlush /\ [][NextFlush]_vars

\* The bucket of worker w holds a sample or a counter that is not zero.
BucketFilled(w) ==
    \/ stats[w].interval_latencies # <<>>
    \/ stats[w].interval_errors > 0
    \/ stats[w].interval_moved > 0
    \/ stats[w].interval_clusterdown > 0
    \/ stats[w].interval_disconnects > 0

\* The csv_interval messages of worker w in the queue q.
CsvMessages(q, w) ==
    Len(SelectSeq(q, LAMBDA m : m.type = "csv_interval" /\ m.worker_id = w))

\* This step is the teardown of worker w: its tasks have been gathered.
Teardown(w) ==
    /\ proc[w].pc = "run"
    /\ proc'[w].pc \in {"close", "final_put"}
    /\ stats[w].csv_mode

LinearConfigs ==
    {[BaseConfig EXCEPT !.start_qps = 1, !.end_qps = 3, !.qps_change = c,
                        !.qps_change_interval = 1, !.num_threads = m,
                        !.total_requests = MaxResponses + 1] :
        c \in {1, 2}, m \in 1 .. MaxThreads}

ExponentialConfigs ==
    {[BaseConfig EXCEPT !.start_qps = r[1], !.end_qps = r[2], !.qps_ramp_factor = r[3],
                        !.qps_ramp_mode = "exponential", !.qps_change_interval = 1,
                        !.num_threads = m, !.total_requests = MaxResponses + 1] :
        r \in {<<1, 4, <<2, 1>>>>, <<1, 3, <<3, 2>>>>, <<4, 1, <<1, 2>>>>},
        m \in 1 .. MaxThreads}

InitRamp ==
    \E cfg \in LinearConfigs \cup ExponentialConfigs :
        InitWith(cfg, [BaseEnv EXCEPT !.max_time = MaxTimeRamp])

NextRamp ==
    \/ MainStart
    \/ \E w \in Procs : RunBenchmarkStart(w)
    \/ \E w \in Procs : CreateClient(w)
    \/ \E w \in Procs : \E k \in Tasks(w) : TaskStart(w, k)
    \/ \E w \in Procs : \E k \in Tasks(w) : ThrottleWake(w, k)
    \/ \E w \in Procs : \E k \in Tasks(w) : RequestReturns(w, k)
    \/ Tick

SpecRamp == InitRamp /\ [][NextRamp]_vars

\* The controller of the single process has been built.
Ramping == proc[0].pc \in {"connect", "run"}

\* This step is a ramp step: last_update is stamped.
RampStep == qps_controller'[0].last_update # qps_controller[0].last_update

\* C12: in a linear ramp with qps_change > 0 and end_qps > start_qps > 0
\* current_qps starts at start_qps, never decreases, never exceeds end_qps,
\* moves by one qps_change, cut at end_qps, and only when a whole
\* qps_change_interval has passed since the last move; once it equals
\* end_qps it stays there.
C12_LinearRamp ==
    [][(Ramping /\ config \in LinearConfigs) =>
          LET q == qps_controller[0].current_qps
              q1 == qps_controller'[0].current_qps
          IN  /\ q <= q1
              /\ q1 <= config.end_qps
              /\ q >= config.start_qps
              /\ RampStep =>
                    /\ now - qps_controller[0].last_update >= Sec(config.qps_change_interval)
                    /\ q1 = Min(config.end_qps, q + config.qps_change)
              /\ ~RampStep => q1 = q
              /\ q = config.end_qps => q1 = config.end_qps
              /\ q = Min(config.end_qps,
                         config.start_qps + hist[0].ramp_steps * config.qps_change)
      ]_vars

\* The ramp from 1 to 3 in steps of 1 has reached 3 and a later ramp step
\* has left it at 3.
C12_Witness ==
    /\ config \in LinearConfigs
    /\ config.qps_change = 1
    /\ qps_controller[0].current_qps = config.end_qps
    /\ hist[0].ramp_steps = 3

\* The integer r is the product q * f rounded to a nearest integer.
Rounded(r, q, f) ==
    /\ 2 * (r * f[2] - q * f[1]) <= f[2]
    /\ 2 * (q * f[1] - r * f[2]) <= f[2]

\* C13: in an exponential ramp every ramp step sets current_qps to
\* round(current_qps * ramp_factor), cut at end_qps from below when the
\* ramp rises and from above when it falls, and nothing else changes it.
\* The ramp from 1 to 4 by the factor 2 (the ramp from 100 to 1600 in
\* hundreds) runs through 1, 2, 4, 4; the ramp from 1 to 3 by 3/2 through
\* 1, 2, 3, 3; the ramp from 4 to 1 by 1/2 through 4, 2, 1, 1.
C13_ExponentialRamp ==
    [][(Ramping /\ config \in ExponentialConfigs) =>
          LET q == qps_controller[0].current_qps
              q1 == qps_controller'[0].current_qps
              f == config.qps_ramp_factor
              rising == config.end_qps > config.start_qps
              values == IF f = <<2, 1>> THEN <<1, 2, 4, 4>>
                        ELSE IF f = <<3, 2>> THEN <<1, 2, 3, 3>>
                        ELSE <<4, 2, 1, 1>>
          IN  /\ RampStep =>
                    \E r \in 0 .. 2 * Max(config.start_qps, config.end_qps) :
                        /\ Rounded(r, q, f)
                        /\ q1 = IF rising THEN Min(r, config.end_qps)
                                ELSE Max(r, config.end_qps)
              /\ ~RampStep => q1 = q
              /\ IF rising THEN q1 <= config.end_qps ELSE q1 >= config.end_qps
              /\ hist[0].ramp_steps <= 3 => q = values[hist[0].ramp_steps + 1]
      ]_vars

\* The ramp from 1 to 4 by the factor 2 has taken three steps and stands
\* at 4.
C13_Witness ==
    /\ config \in ExponentialConfigs
    /\ config.qps_ramp_factor = <<2, 1>>
    /\ hist[0].ramp_steps = 3
    /\ qps_controller[0].current_qps = 4

\* ------------------------------------------------------ construction
\* Single-process runs up to the construction of the rate controller, over
\* every combination of the rate options: absent (0), negative and set.
RateConfigs ==
    {[BaseConfig EXCEPT !.start_qps = s, !.qps = q, !.end_qps = e,
                        !.qps_change_interval = i, !.qps_change = i,
                        !.qps_ramp_mode = m, !.qps_ramp_factor = <<f, 1>>] :
        s \in -1 .. MaxQps, q \in 0 .. MaxQps, e \in 0 .. MaxQps, i \in {0, 1},
        m \in {"linear", "exponential"}, f \in {0, 2}}

InitRate == \E cfg \in RateConfigs : InitWith(cfg, BaseEnv)

NextRate ==
    \/ MainStart
    \/ MainExit
    \/ \E w \in Procs : RunBenchmarkStart(w)

SpecRate == InitRate /\ [][NextRate]_vars

\* C14: the controller starts at start_qps if it is positive, otherwise at
\* qps if positive, otherwise at end_qps if positive, otherwise at 0; when
\* a ramp is configured (qps_change_interval > 0 and end_qps > 0) without a
\* positive start_qps the effective start is end_qps; the configuration is
\* left as it was.
C14_InitialQps ==
    proc[0].pc \in {"connect", "exited"} =>
        /\ qps_controller[0].current_qps =
              IF config.start_qps > 0 THEN config.start_qps
              ELSE IF config.qps > 0 THEN config.qps
              ELSE IF config.end_qps > 0 THEN config.end_qps
              ELSE 0
        /\ (config.qps_change_interval > 0 /\ config.end_qps > 0 /\ config.start_qps <= 0)
              => qps_controller[0].effective_start_qps = config.end_qps
        /\ proc[0].config = config

\* A controller was built for a ramp without start_qps: it starts at qps
\* and takes end_qps as its effective start.
C14_Witness ==
    /\ proc[0].pc = "connect"
    /\ config.start_qps = 0 /\ config.qps = 1 /\ config.end_qps = 2
    /\ config.qps_change_interval = 1
    /\ qps_controller[0].current_qps = 1
    /\ qps_controller[0].effective_start_qps = 2

\* ------------------------------------------------------ planning
\* Runs of main() up to the start of the last worker process, over quotas
\* that the processes divide and do not divide, rate options absent and
\* set, and a ramp.
PlanConfigs ==
    {[BaseConfig EXCEPT !.total_requests = r, !.num_processes = n, !.qps = q,
                        !.start_qps = e[1], !.end_qps = e[2],
                        !.qps_change = e[3], !.qps_change_interval = e[3],
                        !.num_threads = m, !.pool_size = 3 - m,
                        !.test_duration = m - 1, !.csv_mode = (m = 2),
                        !.csv_interval_sec = m - 1] :
        r \in 0 .. MaxPlanRequests, n \in 1 .. MaxPlanProcesses, q \in {0, 1, 5},
        e \in {<<0, 0, 0>>, <<3, 7, 1>>}, m \in {1, 2}}

InitPlan == \E cfg \in PlanConfigs : InitWith(cfg, BaseEnv)

NextPlan ==
    \/ MainStart
    \/ Spawn

SpecPlan == InitPlan /\ [][NextPlan]_vars

\* The workers whose configuration has been planned.
Planned == {w \in Procs : proc[w].pc = "start"}

\* Every worker has its configuration.
AllPlanned == Planned = Procs

\* C15: worker i gets total_requests = floor(N_total / N_proc) + 1 if
\* i < N_total mod N_proc, + 0 otherwise; the quotas of all workers sum to
\* N_total and any two differ by at most 1.
C15_QuotaSplit ==
    /\ \A i \in Planned :
          proc[i].config.total_requests =
              config.total_requests \div config.num_processes
              + (IF i < config.total_requests % config.num_processes THEN 1 ELSE 0)
    /\ AllPlanned =>
          /\ SumOver([w \in Procs |-> proc[w].config.total_requests], Procs)
                = config.total_requests
          /\ \A i, j \in Procs :
                proc[i].config.total_requests - proc[j].config.total_requests <= 1

\* Three workers have shared a quota of five as 2, 2 and 1.
C15_Witness ==
    /\ AllPlanned
    /\ config.num_processes = 3 /\ config.total_requests = 5
    /\ proc[0].config.total_requests = 2
    /\ proc[1].config.total_requests = 2
    /\ proc[2].config.total_requests = 1

\* C16: the configuration of a worker has qps, start_qps and end_qps
\* divided by N_proc as integers, pool_size and num_threads as configured,
\* and every other option but total_requests as configured; the base
\* configuration is as main() built it.
C16_PlanFrame ==
    \A i \in Planned :
        LET c == proc[i].config
            n == config.num_processes
        IN  /\ c.qps = config.qps \div n
            /\ c.start_qps = config.start_qps \div n
            /\ c.end_qps = config.end_qps \div n
            /\ c.pool_size = config.pool_size
            /\ c.num_threads = config.num_threads
            /\ \A f \in DOMAIN config \ {"qps", "start_qps", "end_qps", "total_requests"} :
                  c[f] = config[f]
            /\ config \in PlanConfigs

\* Two workers were planned from qps 5, a ramp from 3 to 7, two tasks and
\* one client: each has qps 2, a ramp from 1 to 3, two tasks and one client.
C16_Witness ==
    /\ AllPlanned
    /\ config.num_processes = 2 /\ config.qps = 5 /\ config.start_qps = 3
    /\ config.num_threads = 2
    /\ \A i \in Procs :
          /\ proc[i].config.qps = 2
          /\ proc[i].config.start_qps = 1 /\ proc[i].config.end_qps = 3
          /\ proc[i].config.num_threads = 2 /\ proc[i].config.pool_size = 1
          /\ proc[i].config.qps_change = 1 /\ proc[i].config.test_duration = 1

\* The sum of one counter column over the data rows printed so far.
RowSum(column) == SumSeq([i \in 1 .. Len(Rows) |-> Rows[i][column]])

\* C17: every request that raises increments errors exactly once; when its
\* message contains MOVED in any letter case the moved counter of the CSV
\* interval is incremented, otherwise when it contains CLUSTERDOWN the
\* clusterdown counter is, and never both for one failure.  A single
\* worker's buckets and rows therefore add up to the failures raised by
\* class, and every row, every CSV message and every bucket, per worker or
\* aggregated, has requests_total_failed >= requests_moved +
\* requests_clusterdown.
C17_ErrorsClassifiedOnce ==
    /\ \A m \in Messages :
          /\ error_msg(m).moved <=>
                \E i \in DOMAIN m : m[i] \in {"moved", "Moved", "MOVED"}
          /\ error_msg(m).clusterdown <=>
                \E i \in DOMAIN m : m[i] \in {"clusterdown", "ClusterDown", "CLUSTERDOWN"}
    /\ \A w \in Procs :
          /\ stats[w].errors = hist[w].failed
          /\ stats[w].csv_mode =>
                /\ stats[w].interval_moved <= hist[w].raised_moved
                /\ stats[w].interval_clusterdown <= hist[w].raised_clusterdown
                /\ stats[w].interval_errors >=
                      stats[w].interval_moved + stats[w].interval_clusterdown
    /\ (config.num_processes = 1 /\ stats[0].csv_mode) =>
          /\ stats[0].interval_errors + RowSum("requests_total_failed") = hist[0].failed
          /\ stats[0].interval_moved + RowSum("requests_moved") = hist[0].raised_moved
          /\ stats[0].interval_clusterdown + RowSum("requests_clusterdown")
                = hist[0].raised_clusterdown
    /\ \A i \in 1 .. Len(Rows) :
          Rows[i].requests_total_failed >=
             Rows[i].requests_moved + Rows[i].requests_clusterdown
    /\ \A i \in 1 .. Len(metrics_queue) :
          metrics_queue[i].type = "csv_interval" =>
             metrics_queue[i].interval_errors >=
                metrics_queue[i].interval_moved + metrics_queue[i].interval_clusterdown

\* An aggregated row of two workers that counts a MOVED failure, a
\* CLUSTERDOWN failure and a failure of neither class, one of the workers
\* having raised a message with both words.
C17_Witness ==
    /\ config.num_processes = 2
    /\ \E w \in Procs : hist[w].raised_moved + hist[w].raised_clusterdown < hist[w].failed
    /\ \E i \in 1 .. Len(Rows) :
          /\ Rows[i].requests_moved >= 1
          /\ Rows[i].requests_clusterdown >= 1
          /\ Rows[i].requests_total_failed >
                Rows[i].requests_moved + Rows[i].requests_clusterdown

\* ------------------------------------------------------ CSV percentiles
\* CSV runs of one worker and of the orchestrator with two workers whose
\* requests measure different latencies, three of them in one interval.
PercentileConfigs ==
    {[BaseConfig EXCEPT !.csv_mode = TRUE, !.csv_interval_sec = 1,
                        !.num_processes = n, !.total_requests = MaxResponses] :
        n \in 1 .. MaxProcesses}

InitPercentile ==
    \E cfg \in PercentileConfigs :
        InitWith(cfg, [BaseEnv EXCEPT
                         !.latencies = {1, 2, 4},
                         !.max_time = IF cfg.num_processes = 1 THEN MaxTimeMp ELSE 0])

NextPercentile ==
    \/ MainStart
    \/ MainExit
    \/ Spawn
    \/ OrchLoopCheck
    \/ OrchGet
    \/ OrchGetTimeout
    \/ \E w \in Procs : RunBenchmarkStart(w)
    \/ \E w \in Procs : CreateClient(w)
    \/ \E w \in Procs : \E k \in Tasks(w) : TaskStart(w, k)
    \/ \E w \in Procs : \E k \in Tasks(w) : RequestReturns(w, k)
    \/ \E w \in Procs : \E k \in Tasks(w) : RequestRaises(w, k)
    \/ \E w \in Procs : GatherReturns(w)
    \/ \E w \in Procs : FinalPut(w)
    \/ \E w \in Procs : FinalPutTimeout(w)
    \/ \E w \in Procs : CloseClient(w)
    \/ Tick
    \/ TimerExpires

SpecPercentile == InitPercentile /\ [][NextPercentile]_vars

\* The eight percentile fields of a row, in the order of the columns.
Percentiles(row) ==
    << row.p50_usec, row.p90_usec, row.p95_usec, row.p99_usec, row.p99_9_usec,
       row.p99_99_usec, row.p99_999_usec, row.p100_usec >>

\* C18: every data row, of one worker or aggregated, has p50 <= p90 <= p95
\* <= p99 <= p99.9 <= p99.99 <= p99.999 <= p100, and no latency field and no
\* request_sec of a row is negative.
C18_PercentilesOrdered ==
    \A i \in 1 .. Len(Rows) :
        LET p == Percentiles(Rows[i])
        IN  /\ \A j \in 1 .. 7 : p[j] <= p[j + 1]
            /\ \A j \in 1 .. 8 : p[j] >= 0
            /\ Rows[i].avg_usec >= 0
            /\ Rows[i].request_sec[1] >= 0 /\ Rows[i].request_sec[2] > 0

\* An aggregated row of two workers, computed over three samples, whose
\* median is positive and below its p90, which is its maximum.
C18_Witness ==
    /\ config.num_processes = 2
    /\ \E i \in 1 .. Len(Rows) :
          /\ 0 < Rows[i].p50_usec
          /\ Rows[i].p50_usec < Rows[i].p90_usec
          /\ Rows[i].p90_usec = Rows[i].p100_usec

\* ------------------------------------------------------ CSV aggregation
\* CSV runs of the orchestrator with several workers and an interval of one
\* second: quota runs that end at once, and quota runs of two requests per
\* worker at one request per second and worker.
AggregateConfigs ==
    {[BaseConfig EXCEPT !.csv_mode = TRUE, !.csv_interval_sec = 1,
                        !.num_processes = n, !.total_requests = n] :
        n \in 2 .. MaxProcesses}
    \cup {[BaseConfig EXCEPT !.csv_mode = TRUE, !.csv_interval_sec = 1,
                             !.num_processes = n, !.total_requests = 2 * n,
                             !.qps = n] :
            n \in 2 .. MaxProcesses}

InitAggregate ==
    \E cfg \in AggregateConfigs :
        InitWith(cfg, [BaseEnv EXCEPT !.max_time = 0])

NextAggregate ==
    \/ MainStart
    \/ MainExit
    \/ Spawn
    \/ OrchLoopCheck
    \/ OrchGet
    \/ OrchGetTimeout
    \/ \E w \in Procs : RunBenchmarkStart(w)
    \/ \E w \in Procs : CreateClient(w)
    \/ \E w \in Procs : \E k \in Tasks(w) : TaskStart(w, k)
    \/ \E w \in Procs : \E k \in Tasks(w) : ThrottleWake(w, k)
    \/ \E w \in Procs : \E k \in Tasks(w) : RequestReturns(w, k)
    \/ \E w \in Procs : GatherReturns(w)
    \/ \E w \in Procs : FinalPut(w)
    \/ \E w \in Procs : FinalPutTimeout(w)
    \/ \E w \in Procs : CloseClient(w)
    \/ TimerExpires

SpecAggregate == InitAggregate /\ [][NextAggregate]_vars

\* The orchestrator takes a csv_interval message from the queue in its loop.
ReceivesCsvInterval ==
    /\ orch.pc = "get" /\ orch'.pc = "poll"
    /\ metrics_queue # <<>>
    /\ Head(metrics_queue).type = "csv_interval"

\* C20: on receiving a csv_interval message in its loop the orchestrator
\* stores it under its worker_id; it prints one aggregated row exactly when,
\* the message stored, all N_proc workers have a pending message or the time
\* since interval_start is at least csv_interval_sec; when it prints, the
\* pending map is cleared and interval_start becomes now; otherwise nothing
\* is printed and the pending map, with the message, and interval_start
\* are kept.
C20_AggregatedRowEmission ==
    [][ReceivesCsvInterval =>
          LET m == Head(metrics_queue)
              old == orch.interval_worker_metrics
              reported == DOMAIN old \cup {m.worker_id}
              due == \/ Cardinality(reported) = config.num_processes
                     \/ now - orch.interval_start >= config.csv_interval_sec * TicksPerSec
              pending == orch'.interval_worker_metrics
          IN  IF due
              THEN /\ Len(stdout') = Len(stdout) + 1
                   /\ stdout'[Len(stdout')].line = "row"
                   /\ SubSeq(stdout', 1, Len(stdout)) = stdout
                   /\ DOMAIN pending = {}
                   /\ orch'.interval_start = now
              ELSE /\ stdout' = stdout
                   /\ DOMAIN pending = reported
                   /\ pending[m.worker_id] = m
                   /\ \A x \in DOMAIN old \ {m.worker_id} : pending[x] = old[x]
                   /\ orch'.interval_start = orch.interval_start
    ]_vars

\* The orchestrator has printed a row when a second had passed since
\* interval_start, has then kept the message of one worker without
\* printing, and the other worker's message is the next it receives.
C20_Witness ==
    /\ config.num_processes = 2
    /\ Len(Rows) >= 1
    /\ orch.interval_start >= TicksPerSec
    /\ Cardinality(DOMAIN orch.interval_worker_metrics) = 1
    /\ now - orch.interval_start < config.csv_interval_sec * TicksPerSec
    /\ orch.pc = "get"
    /\ metrics_queue # <<>>
    /\ Head(metrics_queue).type = "csv_interval"
    /\ Head(metrics_queue).worker_id \notin DOMAIN orch.interval_worker_metrics

\* ------------------------------------------------------ failed intervals
\* CSV runs with an interval of one second: one worker over a second of
\* wall time against a server that may fail, and the orchestrator with
\* several workers, at one request per second and worker, against a server
\* that answers every request with MOVED.
FailedConfigs ==
    {[BaseConfig EXCEPT !.csv_mode = TRUE, !.csv_interval_sec = 1,
                        !.total_requests = 1]}
    \cup {[BaseConfig EXCEPT !.csv_mode = TRUE, !.csv_interval_sec = 1,
                             !.num_processes = n, !.total_requests = n,
                             !.qps = n] :
            n \in 2 .. MaxProcesses}

InitFailed ==
    \E cfg \in FailedConfigs :
        InitWith(cfg, [BaseEnv EXCEPT
                         !.latencies = IF cfg.num_processes = 1 THEN {1} ELSE {},
                         !.errors = IF cfg.num_processes = 1
                                    THEN {error_msg(m) : m \in Messages}
                                    ELSE {error_msg(<<"MOVED", "3999">>)},
                         !.max_time = IF cfg.num_processes = 1 THEN MaxTimeMp ELSE 0])

NextFailed ==
    \/ MainStart
    \/ MainExit
    \/ Spawn
    \/ OrchLoopCheck
    \/ OrchGet
    \/ OrchGetTimeout
    \/ \E w \in Procs : RunBenchmarkStart(w)
    \/ \E w \in Procs : CreateClient(w)
    \/ \E w \in Procs : \E k \in Tasks(w) : TaskStart(w, k)
    \/ \E w \in Procs : \E k \in Tasks(w) : ThrottleWake(w, k)
    \/ \E w \in Procs : \E k \in Tasks(w) : RequestReturns(w, k)
    \/ \E w \in Procs : \E k \in Tasks(w) : RequestRaises(w, k)
    \/ \E w \in Procs : GatherReturns(w)
    \/ \E w \in Procs : CloseClient(w)
    \/ Tick
    \/ TimerExpires

SpecFailed == InitFailed /\ [][NextFailed]_vars

\* A data row is printed in this step.
PrintsRow == Len(SelectSeq(stdout', LAMBDA l : l.line = "row")) = Len(Rows) + 1

\* The nine latency fields and request_sec of a row are 0.
NoLatency(row) ==
    /\ \A j \in 1 .. 8 : Percentiles(row)[j] = 0
    /\ row.avg_usec = 0
    /\ row.request_sec[1] = 0

\* C19: in CSV mode an interval in which every request failed still
\* produces a row once the interval has elapsed.  A single worker prints it
\* when a request fails after the interval has elapsed; a row printed for a
\* bucket without a success has nine latency fields of 0 and request_sec 0
\* and carries the failures of the bucket and of this step by class.  The
\* orchestrator prints it on receiving a message once the interval has
\* elapsed; a row aggregated from messages without a success has the same
\* zeros and carries the sums of their counters.
C19_FailedIntervalRow ==
    [][/\ (config.num_processes = 1 /\ stats[0].csv_mode) =>
            LET failed == hist'[0].failed - hist[0].failed
                row == stdout'[Len(stdout')]
            IN  /\ (failed = 1 /\ now - stats[0].interval_start_time
                                    >= config.csv_interval_sec * TicksPerSec)
                      => PrintsRow
                /\ (PrintsRow /\ stats[0].interval_requests = 0
                              /\ hist'[0].succeeded = hist[0].succeeded) =>
                      /\ NoLatency(row)
                      /\ row.requests_total_failed = stats[0].interval_errors + failed
                      /\ row.requests_moved =
                            stats[0].interval_moved
                            + hist'[0].raised_moved - hist[0].raised_moved
                      /\ row.requests_clusterdown =
                            stats[0].interval_clusterdown
                            + hist'[0].raised_clusterdown - hist[0].raised_clusterdown
       /\ ReceivesCsvInterval =>
            LET m == Head(metrics_queue)
                old == orch.interval_worker_metrics
                reported == DOMAIN old \cup {m.worker_id}
                stored == [x \in reported |-> IF x = m.worker_id THEN m ELSE old[x]]
                row == stdout'[Len(stdout')]
            IN  /\ now - orch.interval_start >= config.csv_interval_sec * TicksPerSec
                      => PrintsRow
                /\ (PrintsRow /\ \A x \in reported : stored[x].interval_requests = 0) =>
                      /\ NoLatency(row)
                      /\ row.requests_total_failed =
                            SumOver([x \in reported |-> stored[x].interval_errors], reported)
                      /\ row.requests_moved =
                            SumOver([x \in reported |-> stored[x].interval_moved], reported)
                      /\ row.requests_clusterdown =
                            SumOver([x \in reported |-> stored[x].interval_clusterdown],
                                    reported)
    ]_vars

\* A single worker has printed, a second after the start, the row of an
\* interval with two failures of which one was MOVED and one CLUSTERDOWN,
\* and no success.
C19_Witness ==
    /\ config.num_processes = 1
    /\ hist[0].succeeded = 0
    /\ Len(Rows) = 1
    /\ Rows[1].timestamp >= 1
    /\ NoLatency(Rows[1])
    /\ Rows[1].requests_total_failed = 2
    /\ Rows[1].requests_moved = 1
    /\ Rows[1].requests_clusterdown = 1

\* The orchestrator has printed the row of an interval in which every
\* request of its workers was answered with MOVED.
C19_WitnessAggregated ==
    /\ config.num_processes = 2
    /\ Len(Rows) >= 1
    /\ NoLatency(Rows[1])
    /\ Rows[1].requests_total_failed >= 2
    /\ Rows[1].requests_moved = Rows[1].requests_total_failed

\* ------------------------------------------------------ aggregation
\* The csv_interval messages a worker w may have sent: its samples, its
\* error counters by class and the duration of its interval.
IntervalMessages(w) ==
    { [ type |-> "csv_interval", worker_id |-> w, timestamp |-> 0,
        interval_duration |-> d,
        interval_latencies |-> l, interval_requests |-> Len(l),
        interval_errors |-> e[1], interval_moved |-> e[2],
        interval_clusterdown |-> e[3], interval_disconnects |-> 0 ] :
        d \in 0 .. MaxTimeMp,
        l \in {<<>>, <<1>>, <<2, 1>>, <<4, 2>>},
        e \in {<<0, 0, 0>>, <<1, 0, 0>>, <<1, 1, 0>>, <<2, 1, 1>>} }

\* The orchestrator of a CSV run in its loop, a second or less after it
\* started its workers, holding the last message of no worker or of one
\* (stored), and the message m it is about to take from the queue; the
\* workers run (alive), or have all returned and m was left in the queue.
AggregationState(stored, m, t, alive) ==
    LET n == MaxProcesses
        cfg == [BaseConfig EXCEPT !.csv_mode = TRUE, !.csv_interval_sec = 1,
                                  !.num_processes = n, !.total_requests = n]
    IN  /\ now = t
        /\ config = cfg
        /\ env = [BaseEnv EXCEPT !.max_time = 0]
        /\ main = [pc |-> "orchestrator", exit_code |-> 0]
        /\ proc = [w \in 0 .. n - 1 |->
                     [pc |-> IF alive THEN "run" ELSE "returned", exit_code |-> 0,
                      config |-> worker_config(cfg, n, w),
                      has_queue |-> TRUE, put_deadline |-> 0]]
        /\ stats = [w \in 0 .. n - 1 |-> BenchmarkStats_init(TRUE, 1, TRUE, w, 0)]
        /\ qps_controller = [w \in 0 .. n - 1 |->
                               QPSController_init(worker_config(cfg, n, w), 0)]
        /\ task = [w \in 0 .. n - 1 |->
                     [k \in 0 .. cfg.num_threads - 1 |->
                        [NewTask EXCEPT !.pc = IF alive THEN "io" ELSE "done"]]]
        /\ client_pool = [w \in 0 .. n - 1 |->
                            [opened |-> 1, closed |-> IF alive THEN 0 ELSE 1]]
        /\ metrics_queue = <<m>>
        /\ shutdown_event = FALSE
        /\ orch = [OrchInit EXCEPT !.pc = IF alive THEN "get" ELSE "poll",
                                   !.spawned = n,
                                   !.interval_worker_metrics = stored]
        /\ stdout = <<[line |-> "header"]>>
        /\ custom_commands = [w \in DOMAIN proc |-> DefaultCommands]
        /\ keyspace = NoHashTables
        /\ hist = [w \in 0 .. n - 1 |->
                     [total_attempts |-> 0, succeeded |-> 0, failed |-> 0, admitted |-> 0,
                      drained |-> FALSE, dropped |-> 0, ramp_steps |-> 0,
                      raised_moved |-> 0, raised_clusterdown |-> 0]]

InitAggregation ==
    \E w \in 0 .. MaxProcesses - 1, v \in 0 .. MaxProcesses - 1 :
    \E m \in IntervalMessages(w) :
    \E stored \in {Empty} \cup {Store(Empty, v, p) : p \in IntervalMessages(v)} :
    \E t \in {0, TicksPerSec}, alive \in BOOLEAN :
        AggregationState(stored, m, t, alive)

NextAggregation ==
    \/ OrchLoopCheck
    \/ OrchGet
    \/ OrchGetTimeout
    \/ MainExit

SpecAggregation == InitAggregation /\ [][NextAggregation]_vars

\* How often v occurs in the list s.
Count(s, v) == Cardinality({i \in DOMAIN s : s[i] = v})

\* The orchestrator leaves its loop and drains a queue whose first message
\* is a csv_interval message.
DrainsCsvInterval ==
    /\ orch.pc = "poll" /\ orch'.pc = "returned"
    /\ Len(metrics_queue) = 1
    /\ Head(metrics_queue).type = "csv_interval"

\* C21: the aggregate of a non-empty set of worker messages has as
\* latencies the reported samples, each as often as the workers reported
\* it, as counters the sums over the reporting workers, and as duration the
\* arithmetic mean of the reported durations (the fraction a.duration); the
\* row printed is the row of that aggregate.
C21_AggregateOfMessages ==
    [][((ReceivesCsvInterval \/ DrainsCsvInterval) /\ PrintsRow) =>
          LET m == Head(metrics_queue)
              old == orch.interval_worker_metrics
              S == DOMAIN old \cup {m.worker_id}
              stored == [x \in S |-> IF x = m.worker_id THEN m ELSE old[x]]
              a == aggregate_csv_metrics(stored)
              sum(field) == SumOver([x \in S |-> stored[x][field]], S)
          IN  /\ \A v \in 0 .. 4 :
                    Count(a.latencies, v) =
                       SumOver([x \in S |-> Count(stored[x].interval_latencies, v)], S)
              /\ \A i \in DOMAIN a.latencies : a.latencies[i] \in 0 .. 4
              /\ a.requests = sum("interval_requests")
              /\ a.errors = sum("interval_errors")
              /\ a.moved = sum("interval_moved")
              /\ a.clusterdown = sum("interval_clusterdown")
              /\ a.disconnects = sum("interval_disconnects")
              /\ a.duration[2] > 0
              /\ a.duration[1] * Cardinality(S) = a.duration[2] * sum("interval_duration")
              /\ stdout' = emit_aggregated_csv_line(stdout, now \div TicksPerSec, a)
    ]_vars

\* The last row was aggregated from the messages of two workers with
\* different samples, counters and durations.
C21_Witness ==
    /\ orch.pc = "returned"
    /\ Len(Rows) = 1
    /\ LET stored == orch.interval_worker_metrics
       IN  /\ DOMAIN stored = {0, 1}
           /\ stored[0].interval_latencies = <<2, 1>>
           /\ stored[1].interval_latencies = <<4, 2>>
           /\ stored[0].interval_errors = 1 /\ stored[1].interval_errors = 2
           /\ stored[0].interval_duration = 0 /\ stored[1].interval_duration = 2
           /\ Rows[1].requests_total_failed = 3
           /\ Rows[1].requests_moved = 1
           /\ Rows[1].request_sec = <<4 * 2 * TicksPerSec, 2>>

\* ------------------------------------------------------ custom commands
\* Single-process quota runs of the custom command and of SET, with every
\* kind of custom command file, against a server that may fail.
CustomConfigs ==
    {[BaseConfig EXCEPT !.total_requests = n, !.num_threads = m, !.command = c,
                        !.custom_command_file = f] :
        n \in 1 .. MaxRequests, m \in 1 .. MaxThreads, c \in {"set", "custom"},
        f \in {"none", "missing", "broken", "loadable"}}

InitCustom ==
    \E cfg \in CustomConfigs :
        InitWith(cfg, [BaseEnv EXCEPT !.custom_returns_false = TRUE])

NextCustom ==
    \/ MainStart
    \/ MainExit
    \/ \E w \in Procs : RunBenchmarkStart(w)
    \/ \E w \in Procs : CreateClient(w)
    \/ \E w \in Procs : \E k \in Tasks(w) : TaskStart(w, k)
    \/ \E w \in Procs : \E k \in Tasks(w) : RequestReturns(w, k)
    \/ \E w \in Procs : \E k \in Tasks(w) : RequestRaises(w, k)
    \/ \E w \in Procs : \E k \in Tasks(w) : CustomReturnsFalse(w, k)
    \/ \E w \in Procs : GatherReturns(w)
    \/ \E w \in Procs : CloseClient(w)
    \/ Tick

SpecCustom == InitCustom /\ [][NextCustom]_vars

\* C22: with the custom command selected and no loadable custom command
\* file, run_benchmark is never entered, no request is sent, and the program
\* ends with code 1.
C22_CustomWithoutFileRejected ==
    (config.command = "custom" /\ config.custom_command_file # "loadable") =>
        /\ \A w \in Procs : proc[w].pc = "none" /\ hist[w].total_attempts = 0
        /\ main.pc = "exited" => main.exit_code = 1

\* What the code does reject: a file that is given and is missing or
\* broken, whatever the command.
C22_UnloadableFileRejected ==
    config.custom_command_file \in {"missing", "broken"} =>
        /\ \A w \in Procs : proc[w].pc = "none" /\ hist[w].total_attempts = 0
        /\ main.pc = "exited" => main.exit_code = 1

\* ------------------------------------------------------ CSV output
\* CSV runs of the SET and the custom command: one worker with an interval
\* of one second over a second of wall time, one worker whose exponential
\* ramp has no factor, and the orchestrator with several workers that run
\* the custom command, with the interval that makes every completion send
\* a message.
HeaderConfigs ==
    {[BaseConfig EXCEPT !.csv_mode = TRUE, !.csv_interval_sec = 1,
                        !.total_requests = r, !.command = c] :
        r \in 1 .. MaxRequests, c \in {"set", "custom"}}
    \cup {[BaseConfig EXCEPT !.csv_mode = TRUE, !.csv_interval_sec = 1,
                             !.start_qps = 1, !.end_qps = 2,
                             !.qps_change_interval = 1,
                             !.qps_ramp_mode = "exponential"]}
    \cup {[BaseConfig EXCEPT !.csv_mode = TRUE, !.csv_interval_sec = 0,
                             !.num_processes = n, !.total_requests = n,
                             !.command = "custom"] :
            n \in 2 .. MaxProcesses}

InitHeader ==
    \E cfg \in HeaderConfigs :
        InitWith(cfg, [BaseEnv EXCEPT
                         !.custom_returns_false = TRUE,
                         !.errors = IF cfg.num_processes = 1 THEN @ ELSE {},
                         !.max_time = IF cfg.num_processes = 1 THEN MaxTimeMp ELSE 0])

NextHeader ==
    \/ MainStart
    \/ MainExit
    \/ Spawn
    \/ OrchLoopCheck
    \/ OrchGet
    \/ OrchGetTimeout
    \/ \E w \in Procs : RunBenchmarkStart(w)
    \/ \E w \in Procs : CreateClient(w)
    \/ \E w \in Procs : \E k \in Tasks(w) : TaskStart(w, k)
    \/ \E w \in Procs : \E k \in Tasks(w) : RequestReturns(w, k)
    \/ \E w \in Procs : \E k \in Tasks(w) : RequestRaises(w, k)
    \/ \E w \in Procs : \E k \in Tasks(w) : CustomReturnsFalse(w, k)
    \/ \E w \in Procs : GatherReturns(w)
    \/ \E w \in Procs : FinalPut(w)
    \/ \E w \in Procs : FinalPutTimeout(w)
    \/ \E w \in Procs : CloseClient(w)
    \/ Tick
    \/ TimerExpires

SpecHeader == InitHeader /\ [][NextHeader]_vars

\* The header lines and data rows of an output, in order.
CsvLines(out) == SelectSeq(out, LAMBDA l : l.line \in {"header", "row"})

\* The run has passed the point where the header is printed: run_benchmark
\* of a single worker has built its controller, or the orchestrator runs.
HeaderDue ==
    IF config.num_processes = 1
    THEN proc[0].pc \notin {"none", "start", "exited"}
    ELSE main.pc = "orchestrator" \/ orch.pc # "none"

\* C23: in CSV mode the header is printed once, before every data row, by
\* a single worker as by the orchestrator; a step of a worker process of
\* the orchestrator prints neither a header nor a row; every data row has
\* exactly 15 fields.
C23_OneHeaderBeforeRows ==
    /\ [](config.csv_mode =>
            LET lines == CsvLines(stdout) IN
            /\ \A i \in 1 .. Len(lines) : lines[i].line = "header" <=> i = 1
            /\ HeaderDue => Len(lines) >= 1
            /\ ~HeaderDue => lines = <<>>
            /\ \A i \in 1 .. Len(lines) :
                  lines[i].line = "row" =>
                     Cardinality(DOMAIN lines[i] \ {"line"}) = 15)
    /\ [][(config.csv_mode /\ config.num_processes > 1
             /\ (proc' # proc \/ stats' # stats \/ task' # task \/ hist' # hist))
          => CsvLines(stdout') = CsvLines(stdout)]_vars

\* The orchestrator of two workers running the custom command has printed
\* the header and then two rows, and a worker has printed an error of its
\* command in between.
C23_Witness ==
    /\ config.num_processes = 2
    /\ config.command = "custom"
    /\ Len(CsvLines(stdout)) >= 3
    /\ \E i \in 2 .. Len(stdout) - 1 :
          /\ stdout[i].line = "command error"
          /\ stdout[i + 1].line = "row"

\* One worker running the custom command has printed the header, the row
\* of the elapsed interval and the row of its teardown.
C23_WitnessSingle ==
    /\ config.num_processes = 1
    /\ config.command = "custom"
    /\ Len(CsvLines(stdout)) = 3
    /\ stdout[1].line = "header"
    /\ proc[0].pc = "returned"

\* Task k of worker w evaluates its loop condition in this step and leaves
\* the loop.
LeavesLoop(w, k) == task[w][k].pc \in {"start", "io"} /\ task'[w][k].pc = "done"

\* Task k of worker w evaluates its loop condition in this step and goes
\* on to throttle() and its next request.
StaysInLoop(w, k) ==
    /\ task[w][k].pc \in {"start", "io"}
    /\ task'[w][k].pc \in {"throttle", "io"}
    /\ task'[w][k] # task[w][k]

\* C24: with test_duration > 0 a task leaves the loop only when its deadline
\* has flipped the running flag or the shutdown signal is set, however many
\* requests have completed, and otherwise goes on; with test_duration = 0 it
\* leaves exactly when the quota is reached or the signal is set.
C24_DeadlineOnlyStop ==
    [][\A w \in Procs : \A k \in Tasks(w) :
          LET cfg == proc[w].config
              shutdown == proc[w].has_queue /\ shutdown_event
              quota == stats'[w].requests_completed >= cfg.total_requests
          IN  IF cfg.test_duration > 0
              THEN /\ LeavesLoop(w, k) => (~task[w][k].running \/ shutdown)
                   /\ StaysInLoop(w, k) => (task[w][k].running /\ ~shutdown)
              ELSE /\ LeavesLoop(w, k) => (quota \/ shutdown)
                   /\ StaysInLoop(w, k) => (~quota /\ ~shutdown)
    ]_vars

\* In a run of one second with a quota of one request, two requests have
\* completed and the task has sent a third before the deadline.
C24_Witness ==
    /\ config.test_duration = 1
    /\ config.total_requests = 1
    /\ stats[0].requests_completed = 2
    /\ task[0][0].pc = "io"
    /\ task[0][0].running
    /\ task[0][0].dispatched = 3
    /\ now < task[0][0].deadline

\* ------------------------------------------------------ throttle
\* Runs without a limit (--qps 0 and --qps -1), runs whose exponential ramp
\* from 1 towards 2 by the factor 1/2 rounds current_qps to 0, and runs of a
\* linear ramp whose qps_change points away from end_qps (from 3 to 1 by
\* +1, from 1 to 3 by -1).  The quota outlasts the run.
UnlimitedConfigs ==
    {[BaseConfig EXCEPT !.qps = q, !.num_threads = m,
                        !.total_requests = MaxResponses + 1] :
        q \in {0, -1}, m \in 1 .. MaxThreads}
    \cup {[BaseConfig EXCEPT !.start_qps = 1, !.end_qps = 2,
                             !.qps_ramp_factor = <<1, 2>>,
                             !.qps_ramp_mode = "exponential", !.qps_change_interval = 1,
                             !.num_threads = m, !.total_requests = MaxResponses + 1] :
            m \in 1 .. MaxThreads}

MismatchedConfigs ==
    {[BaseConfig EXCEPT !.start_qps = r[1], !.end_qps = r[2], !.qps_change = r[3],
                        !.qps_change_interval = 1, !.num_threads = m,
                        !.total_requests = MaxResponses + 1] :
        r \in {<<3, 1, 1>>, <<1, 3, -1>>}, m \in 1 .. MaxThreads}

InitThrottle ==
    \E cfg \in UnlimitedConfigs \cup MismatchedConfigs :
        InitWith(cfg, [BaseEnv EXCEPT !.max_time = MaxTimeRamp])

NextThrottle ==
    \/ MainStart
    \/ \E w \in Procs : RunBenchmarkStart(w)
    \/ \E w \in Procs : CreateClient(w)
    \/ \E w \in Procs : \E k \in Tasks(w) : TaskStart(w, k)
    \/ \E w \in Procs : \E k \in Tasks(w) : ThrottleWake(w, k)
    \/ \E w \in Procs : \E k \in Tasks(w) : RequestReturns(w, k)
    \/ Tick

SpecThrottle == InitThrottle /\ [][NextThrottle]_vars

\* C25: a call of throttle() that finds current_qps <= 0 returns at once,
\* so the caller sends its request in the same step, and leaves the
\* controller (last_update, second_start, requests_this_second,
\* current_qps) as it was.
C25_UnlimitedReturnsAtOnce ==
    [][\A w \in Procs : \A k \in Tasks(w) :
          (StaysInLoop(w, k) /\ qps_controller[w].current_qps <= 0) =>
              /\ task'[w][k].pc = "io"
              /\ qps_controller'[w] = qps_controller[w]
    ]_vars

\* The exponential ramp has rounded current_qps to 0; a ramp interval later
\* the tasks have sent further requests and the controller is as the ramp
\* step and the wake-up after it left it.
C25_Witness ==
    /\ config \in UnlimitedConfigs
    /\ config.qps_ramp_mode = "exponential"
    /\ qps_controller[0].current_qps = 0
    /\ hist[0].ramp_steps = 1
    /\ now - qps_controller[0].last_update >= config.qps_change_interval * TicksPerSec
    /\ qps_controller[0].requests_this_second = 1
    /\ hist[0].total_attempts >= 3

\* C26: in a linear ramp whose qps_change has not the sign of end_qps -
\* start_qps, current_qps keeps its initial value, start_qps, over every
\* sequence of throttle() calls.
C26_MismatchedRampDisabled ==
    (config \in MismatchedConfigs /\ Ramping) =>
        qps_controller[0].current_qps = config.start_qps

\* A ramp from 3 to 1 by +1: throttle() has found the ramp interval elapsed
\* twice and current_qps is still 3.
C26_Witness ==
    /\ config \in MismatchedConfigs
    /\ config.start_qps = 3 /\ config.end_qps = 1 /\ config.qps_change = 1
    /\ Ramping
    /\ hist[0].ramp_steps = 2
    /\ qps_controller[0].current_qps = 3

\* ------------------------------------------------------ shutdown
\* Lines 1188-1254 and 1264-1270: everything the polling loop raises is
\* swallowed by the inner except (line 1183), so an exception reaches the
\* outer handler only from the code after the loop (the drain is guarded as
\* well; the prints are not).  The handler sets the shutdown event,
\* terminates and joins every worker and re-raises.
OrchError ==
    /\ env.orch_error
    /\ orch.pc = "poll"
    /\ ~\E w \in Procs : Alive(w)
    /\ shutdown_event' = TRUE
    /\ proc' = [w \in Procs |->
                  IF Alive(w) THEN [proc[w] EXCEPT !.pc = "terminated"] ELSE proc[w]]
    /\ orch' = [orch EXCEPT !.pc = "raised"]
    /\ UNCHANGED <<now, config, env, main, stats, qps_controller, task,
                   client_pool, metrics_queue, stdout, hist,
                   custom_commands, keyspace>>

\* Runs of several processes in which SIGINT arrives or the code after the
\* polling loop raises, followed at their first instant and at the instants
\* their timers expire.
ShutdownConfigs ==
    {[BaseConfig EXCEPT !.num_processes = n, !.total_requests = n, !.csv_mode = c] :
        n \in 2 .. MaxProcesses, c \in BOOLEAN}

InitShutdown ==
    \E cfg \in ShutdownConfigs : \E s \in BOOLEAN :
        InitWith(cfg, [BaseEnv EXCEPT !.sigint = s, !.orch_error = ~s,
                                      !.max_time = 0])

NextShutdown ==
    \/ MainStart
    \/ MainExit
    \/ Spawn
    \/ OrchLoopCheck
    \/ OrchGet
    \/ OrchGetTimeout
    \/ OrchSigint
    \/ OrchJoin
    \/ OrchTerminate
    \/ OrchError
    \/ \E w \in Procs : RunBenchmarkStart(w)
    \/ \E w \in Procs : CreateClient(w)
    \/ \E w \in Procs : \E k \in Tasks(w) : TaskStart(w, k)
    \/ \E w \in Procs : \E k \in Tasks(w) : RequestReturns(w, k)
    \/ \E w \in Procs : GatherReturns(w)
    \/ \E w \in Procs : FinalPut(w)
    \/ \E w \in Procs : CloseClient(w)
    \/ TimerExpires

\* The orchestrator is one sequential process that the system keeps running,
\* and its clock advances: the steps of the SIGINT handler and the expiry of
\* a pending timer are taken when they stay possible.  Nothing is assumed of
\* the workers: a request may never return.
SpecShutdown ==
    /\ InitShutdown
    /\ [][NextShutdown]_vars
    /\ WF_vars(OrchJoin)
    /\ WF_vars(OrchTerminate)
    /\ WF_vars(TimerExpires)

\* The orchestrator has entered one of its two handlers.
ShutdownBegun == orch.pc \in {"join", "raised"} \/ orch.interrupted

\* C27: once the orchestrator has begun to shut down, eventually no worker
\* process is alive and the orchestrator has ended; and a worker process is
\* terminated only by the orchestrator, in the SIGINT handler only when it is
\* the worker being joined and the join has timed out.
C27_ShutdownEndsWorkers ==
    /\ ShutdownBegun ~> (/\ \A w \in Procs : ~Alive(w)
                         /\ orch.pc \in {"returned", "raised"})
    /\ [][\A w \in Procs :
            (proc'[w].pc = "terminated" /\ proc[w].pc # "terminated") =>
                \/ orch.pc = "poll"
                \/ /\ orch.pc = "join"
                   /\ orch.join_index = w
                   /\ now >= orch.join_deadline]_vars

\* After SIGINT the first worker was joined in time and the second one was
\* terminated when its grace period had run out; the orchestrator has returned.
C27_Witness ==
    /\ orch.pc = "returned"
    /\ orch.interrupted
    /\ ~Alive(0)
    /\ proc[0].pc # "terminated"
    /\ proc[1].pc = "terminated"
    /\ now >= Sec(JoinTimeoutSec)

\* The code after the polling loop raised; the handler ran with every worker
\* already joined and the orchestrator re-raised.
C27_WitnessError ==
    /\ orch.pc = "raised"
    /\ shutdown_event
    /\ \A w \in Procs : ~Alive(w)

\* ------------------------------------------------------ the interval check
\* CSV runs of one process followed over one interval, with one and several
\* request tasks, the built-in and the custom command, and of several
\* processes at their first instant, where an interval of 0 s has always
\* elapsed and an interval of 1 s never has; the server may fail.
CheckConfigs ==
    {[BaseConfig EXCEPT !.csv_mode = TRUE, !.csv_interval_sec = i,
                        !.total_requests = MaxResponses, !.num_threads = m,
                        !.command = t] :
        i \in 0 .. MaxCsvInterval, m \in 1 .. MaxThreads, t \in {"set", "custom"}}
    \cup {[BaseConfig EXCEPT !.csv_mode = TRUE, !.csv_interval_sec = i,
                             !.num_processes = n, !.total_requests = 2 * n] :
            i \in 0 .. MaxCsvInterval, n \in 2 .. MaxProcesses}

InitCheck ==
    \E cfg \in CheckConfigs :
        InitWith(cfg, [BaseEnv EXCEPT
                         !.custom_returns_false = TRUE,
                         !.max_time = IF cfg.num_processes = 1 THEN MaxTimeMp ELSE 0])

NextCheck ==
    \/ MainStart
    \/ MainExit
    \/ Spawn
    \/ OrchLoopCheck
    \/ OrchGet
    \/ OrchGetTimeout
    \/ \E w \in Procs : RunBenchmarkStart(w)
    \/ \E w \in Procs : CreateClient(w)
    \/ \E w \in Procs : \E k \in Tasks(w) : TaskStart(w, k)
    \/ \E w \in Procs : \E k \in Tasks(w) : RequestReturns(w, k)
    \/ \E w \in Procs : \E k \in Tasks(w) : RequestRaises(w, k)
    \/ \E w \in Procs : \E k \in Tasks(w) : CustomReturnsFalse(w, k)
    \/ \E w \in Procs : GatherReturns(w)
    \/ \E w \in Procs : CloseClient(w)
    \/ Tick

SpecCheck == InitCheck /\ [][NextCheck]_vars

\* A request of worker w completes in this step, with a recorded success or
\* a recorded failure.
Completes(w) ==
    hist'[w].succeeded + hist'[w].failed = Answered(w) + 1

\* The interval of worker w has elapsed.
Elapsed(w) == now - stats[w].interval_start_time >= Sec(stats[w].csv_interval_sec)

\* Worker w flushes in this step: the bucket is empty again and restarts
\* now, and the row was printed or, with a queue, the message was queued
\* unless the queue was full.
Flushes(w) ==
    /\ stats'[w].interval_start_time = now
    /\ stats'[w].interval_latencies = <<>>
    /\ stats'[w].interval_requests = 0
    /\ stats'[w].interval_errors = 0
    /\ IF stats[w].has_queue
       THEN \/ Len(metrics_queue) >= QueueMaxsize /\ metrics_queue' = metrics_queue
            \/ /\ Len(metrics_queue') = Len(metrics_queue) + 1
               /\ metrics_queue'[Len(metrics_queue')].type = "csv_interval"
               /\ metrics_queue'[Len(metrics_queue')].worker_id = w
       ELSE PrintsRow

\* Worker w leaves its bucket and its outputs as the completed request
\* filled them: nothing is printed or queued and the interval goes on.
KeepsInterval(w) ==
    /\ stats'[w].interval_start_time = stats[w].interval_start_time
    /\ stats'[w].interval_requests + stats'[w].interval_errors
          = stats[w].interval_requests + stats[w].interval_errors + 1
    /\ metrics_queue' = metrics_queue
    /\ ~PrintsRow

\* C28: in CSV mode every request that completes, with a success or with a
\* failure, flushes the interval in the same step if
\* now - interval_start >= csv_interval_sec and leaves it open otherwise.
C28_FlushCheckOnEveryOutcome ==
    [][\A w \in Procs :
          (stats[w].csv_mode /\ Completes(w)) =>
              IF Elapsed(w) THEN Flushes(w) ELSE KeepsInterval(w)]_vars

\* A single worker with a 1 s interval: the only row so far holds one failed
\* request and nothing else, and was printed by the interval check after one
\* second, not by the final drain.
C28_Witness ==
    /\ config.num_processes = 1
    /\ config.csv_interval_sec = 1
    /\ config.command = "set"
    /\ Len(Rows) = 1
    /\ Rows[1].requests_total_failed = 1
    /\ NoLatency(Rows[1])
    /\ Rows[1].timestamp >= 1
    /\ ~hist[0].drained

\* A worker of a multi-process run with a 0 s interval has sent the bucket
\* of a failed request, and a single worker with a 1 s interval has kept two
\* successes in its open interval.
C28_WitnessQueued ==
    /\ config.num_processes > 1
    /\ \E i \in 1 .. Len(metrics_queue) :
          /\ metrics_queue[i].type = "csv_interval"
          /\ metrics_queue[i].interval_errors = 1
          /\ metrics_queue[i].interval_requests = 0

C28_WitnessOpen ==
    /\ config.num_processes = 1
    /\ config.csv_interval_sec = 1
    /\ stats[0].interval_requests = 2
    /\ Rows = <<>>
    /\ proc[0].pc = "run"

\* ------------------------------------------------------ intervals of a worker
\* The interval bucket of a statistics object: lines 218-224.
Bucket(st) ==
    [ latencies |-> st.interval_latencies,
      requests |-> st.interval_requests,
      errors |-> st.interval_errors,
      moved |-> st.interval_moved,
      clusterdown |-> st.interval_clusterdown ]

EmptyBucket ==
    [ latencies |-> <<>>, requests |-> 0, errors |-> 0, moved |-> 0, clusterdown |-> 0 ]

\* The request that completes in this step was recorded by add_latency.
Succeeds(w) == Len(stats'[w].latencies) = Len(stats[w].latencies) + 1

\* The bucket of worker w with the outcome of the request that completes in
\* this step added to it: the sample of a success, the counters of a failure.
BucketAfter(w) ==
    [ latencies |-> IF Succeeds(w)
                    THEN Append(stats[w].interval_latencies,
                                stats'[w].latencies[Len(stats'[w].latencies)])
                    ELSE stats[w].interval_latencies,
      requests |-> stats[w].interval_requests + (IF Succeeds(w) THEN 1 ELSE 0),
      errors |-> stats[w].interval_errors + (stats'[w].errors - stats[w].errors),
      moved |-> stats[w].interval_moved
                   + (hist'[w].raised_moved - hist[w].raised_moved),
      clusterdown |-> stats[w].interval_clusterdown
                         + (hist'[w].raised_clusterdown - hist[w].raised_clusterdown) ]

\* Worker w flushes the bucket b in this step: the row computed from b is
\* the line printed last, or the message that carries b is the next one in
\* the queue unless the queue was full.
FlushOf(w, b) ==
    LET st == stats[w] IN
    IF st.has_queue
    THEN \/ Len(metrics_queue) >= QueueMaxsize
         \/ /\ Len(metrics_queue') > Len(metrics_queue)
            /\ metrics_queue'[Len(metrics_queue) + 1] =
                  [ type |-> "csv_interval",
                    worker_id |-> st.worker_id,
                    timestamp |-> now \div TicksPerSec,
                    interval_duration |-> now - st.interval_start_time,
                    interval_latencies |-> b.latencies,
                    interval_requests |-> b.requests,
                    interval_errors |-> b.errors,
                    interval_moved |-> b.moved,
                    interval_clusterdown |-> b.clusterdown,
                    interval_disconnects |-> st.interval_disconnects ]
    ELSE /\ PrintsRow
         /\ stdout'[Len(stdout')] =
               csv_row(now \div TicksPerSec,
                       request_rate(b.requests, now - st.interval_start_time, 1),
                       b.latencies, b.errors, b.moved, b.clusterdown,
                       st.interval_disconnects)

\* Worker w puts out no interval in this step.
NoIntervalOut(w) ==
    /\ CsvMessages(metrics_queue', w) <= CsvMessages(metrics_queue, w)
    /\ ~stats[w].has_queue => ~PrintsRow

\* What a step does to the intervals of worker w.
IntervalStep(w) ==
    CASE Completes(w) ->
           IF Elapsed(w)
           THEN /\ FlushOf(w, BucketAfter(w))
                /\ Bucket(stats'[w]) = EmptyBucket
                /\ stats'[w].interval_start_time = now
           ELSE /\ Bucket(stats'[w]) = BucketAfter(w)
                /\ stats'[w].interval_start_time = stats[w].interval_start_time
                /\ NoIntervalOut(w)
      [] Teardown(w) ->
           IF BucketFilled(w)
           THEN /\ FlushOf(w, Bucket(stats[w]))
                /\ Bucket(stats'[w]) = EmptyBucket
                /\ stats'[w].interval_start_time = now
           ELSE /\ Bucket(stats'[w]) = EmptyBucket
                /\ NoIntervalOut(w)
      [] OTHER ->
           /\ Bucket(stats'[w]) = Bucket(stats[w])
           /\ stats'[w].interval_start_time = stats[w].interval_start_time
           /\ NoIntervalOut(w)

\* C29: within one worker in CSV mode, with one and with several tasks,
\* every completed request adds its sample or its counters to the open
\* interval, and in the same step the interval is either flushed whole
\* (printed or sent with exactly that content, then emptied and restarted
\* now) or left open; the final drain flushes what is left; no other step
\* touches the interval; a worker that has ended holds nothing; and the
\* timestamps of the rows it printed and of its messages in the queue never
\* decrease.
C29_EachOutcomeInOneInterval ==
    /\ [][\A w \in Procs :
             (stats[w].csv_mode /\ proc[w].pc = "run") => IntervalStep(w)]_vars
    /\ [](\A w \in Procs :
             (stats[w].csv_mode /\ proc[w].pc \in {"close", "final_put", "returned"})
                 => Bucket(stats[w]) = EmptyBucket)
    /\ [](config.num_processes = 1 =>
             \A i \in 1 .. Len(Rows) - 1 : Rows[i + 1].timestamp >= Rows[i].timestamp)
    /\ [](\A i \in 1 .. Len(metrics_queue) : \A j \in i .. Len(metrics_queue) :
             (/\ metrics_queue[i].type = "csv_interval"
              /\ metrics_queue[j].type = "csv_interval"
              /\ metrics_queue[i].worker_id = metrics_queue[j].worker_id)
                 => metrics_queue[i].timestamp <= metrics_queue[j].timestamp)

\* A single worker with two tasks and an interval of 1 s has ended: of its
\* three requests the interval check flushed some into the first row and the
\* final drain the rest into the second.
C29_Witness ==
    /\ config.num_processes = 1
    /\ config.num_threads = 2
    /\ config.csv_interval_sec = 1
    /\ config.command = "set"
    /\ proc[0].pc = "returned"
    /\ hist[0].succeeded = MaxResponses
    /\ Len(Rows) = 2
    /\ hist[0].drained

\* A single worker with two tasks and an interval of 1 s: the interval check
\* flushed a failure and a success into one row.
C29_WitnessMixed ==
    /\ config.num_processes = 1
    /\ config.num_threads = 2
    /\ config.csv_interval_sec = 1
    /\ config.command = "set"
    /\ Len(Rows) = 1
    /\ Rows[1].requests_total_failed = 1
    /\ ~NoLatency(Rows[1])
    /\ ~hist[0].drained

\* ------------------------------------------------------ failed requests
\* Runs against a server that may fail any request, with a plain error or
\* with MOVED: one process in human and in CSV mode, with a quota and with a
\* duration, one and several tasks and each command, followed over one
\* second; two processes at their first instant.
FailingConfigs ==
    {[BaseConfig EXCEPT !.total_requests = n, !.num_threads = m, !.csv_mode = c] :
        n \in 1 .. MaxRequests, m \in 1 .. MaxThreads, c \in BOOLEAN}
    \cup {[BaseConfig EXCEPT !.command = t] : t \in {"get", "custom"}}
    \cup {[BaseConfig EXCEPT !.test_duration = 1, !.csv_mode = c] : c \in BOOLEAN}
    \cup {[BaseConfig EXCEPT !.num_processes = n, !.total_requests = n,
                             !.csv_mode = c] :
            n \in 2 .. MaxProcesses, c \in BOOLEAN}

InitFailing ==
    \E cfg \in FailingConfigs :
        InitWith(cfg, [BaseEnv EXCEPT
                         !.errors = IF cfg.num_processes = 1
                                    THEN {error_msg(<<"timeout">>),
                                          error_msg(<<"MOVED", "3999">>)}
                                    ELSE {error_msg(<<"timeout">>)},
                         !.connect_fails = (cfg.num_processes = 1),
                         !.max_time = IF cfg.num_processes = 1 THEN MaxTimeMp ELSE 0])

NextFailing ==
    \/ MainStart
    \/ MainExit
    \/ Spawn
    \/ OrchLoopCheck
    \/ OrchGet
    \/ OrchGetTimeout
    \/ \E w \in Procs : RunBenchmarkStart(w)
    \/ \E w \in Procs : CreateClient(w)
    \/ \E w \in Procs : CreateClientRaises(w)
    \/ \E w \in Procs : \E k \in Tasks(w) : TaskStart(w, k)
    \/ \E w \in Procs : \E k \in Tasks(w) : DeadlineFires(w, k)
    \/ \E w \in Procs : \E k \in Tasks(w) : RequestReturns(w, k)
    \/ \E w \in Procs : \E k \in Tasks(w) : RequestRaises(w, k)
    \/ \E w \in Procs : GatherReturns(w)
    \/ \E w \in Procs : FinalPut(w)
    \/ \E w \in Procs : CloseClient(w)
    \/ Tick

SpecFailing == InitFailing /\ [][NextFailing]_vars

\* The request of task k of worker w fails in this step.
Fails(w, k) ==
    /\ task[w][k].pc = "io"
    /\ task'[w][k] # task[w][k]
    /\ stats'[w].errors = stats[w].errors + 1

\* C30: a request that raises is counted as one error and as no completed
\* request, leaves the worker running and every other task where it was,
\* and sends its own task to the loop condition: the task ends if the
\* condition says so and otherwise goes on to throttle() and its next
\* request.  A worker that has raised or exited has recorded no error.
C30_FailureNeverStopsWorker ==
    /\ [][\A w \in Procs : \A k \in Tasks(w) :
             Fails(w, k) =>
                LET cfg == proc[w].config
                    stop == \/ ~task[w][k].running
                            \/ /\ cfg.test_duration = 0
                               /\ stats[w].requests_completed >= cfg.total_requests
                            \/ proc[w].has_queue /\ shutdown_event
                IN  /\ proc'[w].pc = "run"
                    /\ stats'[w].requests_completed = stats[w].requests_completed
                    /\ hist'[w].failed = hist[w].failed + 1
                    /\ IF stop THEN task'[w][k].pc = "done"
                       ELSE task'[w][k].pc \in {"throttle", "io"}
                    /\ \A j \in Tasks(w) \ {k} : task'[w][j] = task[w][j]]_vars
    /\ [](\A w \in Procs :
             proc[w].pc \in {"raised", "exited", "terminated"} => stats[w].errors = 0)

\* A single task with a quota of one request failed twice, went on, had its
\* third request answered, and the worker has returned.
C30_Witness ==
    /\ config.num_processes = 1
    /\ config.num_threads = 1
    /\ config.total_requests = 1
    /\ stats[0].errors = 2
    /\ stats[0].requests_completed = 1
    /\ task[0][0].dispatched = 3
    /\ proc[0].pc = "returned"

\* ------------------------------------------------------ the percentile routine
\* The longest latency list and the largest latency (in units of
\* 1/UnitsPerUsec microsecond) the routine is applied to.
MaxSamples == 4
MaxLatency == 5

\* The percentiles the routine is applied to, in thousandths of a percent:
\* those of a CSV row, and 0, 0.001 and 100.
PercentileInputs == {0, 1, P50, P90, P95, P99, P99_9, P99_99, P99_999, 100000}

\* A single CSV worker whose open interval holds the samples lats.
PercentileState(lats) ==
    LET cfg == [BaseConfig EXCEPT !.csv_mode = TRUE, !.csv_interval_sec = 1,
                                  !.total_requests = MaxSamples + 1]
    IN  /\ now = 0
        /\ config = cfg
        /\ env = BaseEnv
        /\ main = [pc |-> "single", exit_code |-> 0]
        /\ proc = [w \in {0} |-> [pc |-> "run", exit_code |-> 0, config |-> cfg,
                                  has_queue |-> FALSE, put_deadline |-> 0]]
        /\ stats = [w \in {0} |->
                      [BenchmarkStats_init(TRUE, 1, FALSE, 0, 0) EXCEPT
                          !.latencies = lats,
                          !.current_window_latencies = lats,
                          !.requests_completed = Len(lats),
                          !.interval_latencies = lats,
                          !.interval_requests = Len(lats),
                          !.csv_header_printed = TRUE]]
        /\ qps_controller = [w \in {0} |-> QPSController_init(cfg, 0)]
        /\ task = [w \in {0} |-> [k \in {0} |-> [NewTask EXCEPT !.pc = "io"]]]
        /\ client_pool = [w \in {0} |-> [opened |-> 1, closed |-> 0]]
        /\ metrics_queue = <<>>
        /\ shutdown_event = FALSE
        /\ orch = OrchInit
        /\ stdout = <<>>
        /\ custom_commands = [w \in DOMAIN proc |-> DefaultCommands]
        /\ keyspace = NoHashTables
        /\ hist = [w \in {0} |->
                     [total_attempts |-> Len(lats) + 1, succeeded |-> Len(lats),
                      failed |-> 0, admitted |-> 0, drained |-> FALSE, dropped |-> 0,
                      ramp_steps |-> 0, raised_moved |-> 0, raised_clusterdown |-> 0]]

InitIndex ==
    \E n \in 0 .. MaxSamples : \E lats \in [1 .. n -> 0 .. MaxLatency] :
        PercentileState(lats)

\* Lines 326-334: the routine is called on the sorted samples of the
\* interval; the call and its result are recorded.
CalculatePercentile ==
    /\ stdout = <<>>
    /\ \E percentile \in PercentileInputs :
          LET sorted_lats == sorted(stats[0].interval_latencies)
          IN  stdout' = <<[line |-> "percentile",
                           sorted_latencies |-> sorted_lats,
                           percentile |-> percentile,
                           usec |-> calculate_percentile_usec(sorted_lats, percentile)]>>
    /\ UNCHANGED <<now, config, env, main, proc, stats, qps_controller, task,
                   client_pool, metrics_queue, shutdown_event, orch, hist,
                   custom_commands, keyspace>>

NextIndex == CalculatePercentile

SpecIndex == InitIndex /\ [][NextIndex]_vars

\* C31: a call of the percentile routine on an empty list returns 0; on a
\* sorted list of length L it returns the element at the index i in
\* [0, L - 1] with i = min(floor(L * p / 100), L - 1), truncated to whole
\* microseconds.
C31_PercentileIndex ==
    \A n \in 1 .. Len(stdout) :
        stdout[n].line = "percentile" =>
            LET s == stdout[n].sorted_latencies
                L == Len(s)
                p == stdout[n].percentile
                v == stdout[n].usec
            IN  IF L = 0 THEN v = 0
                ELSE \E i \in 0 .. L - 1 :
                        /\ i * 100000 <= L * p
                        /\ i = L - 1 \/ (i + 1) * 100000 > L * p
                        /\ v * UnitsPerUsec <= s[i + 1]
                        /\ s[i + 1] < (v + 1) * UnitsPerUsec

\* The routine was called with 100 percent on three samples that arrived
\* out of order: the index was cut to 2 and the largest sample, 2.5
\* microseconds, came back as 2; and with 50 percent the middle one.
C31_Witness ==
    /\ stats[0].interval_latencies = <<5, 1, 3>>
    /\ stdout # <<>>
    /\ stdout[1].percentile = 100000
    /\ stdout[1].usec = 2

C31_WitnessMedian ==
    /\ stats[0].interval_latencies = <<5, 1, 3, 2>>
    /\ stdout # <<>>
    /\ stdout[1].percentile = P50
    /\ stdout[1].usec = 1

\* ------------------------------------------------------ termination of quota runs
\* C32: in quota mode the dispatch loops of a worker end after finitely
\* many requests whatever the outcomes of the requests.  The loop reads only
\* requests_completed, the running flag and the shutdown signal: an answered
\* request that sends its task on to the next request and leaves all three as
\* they were can repeat without end, so no answered request may do so.
C32_QuotaLoopsTerminate ==
    [][\A w \in Procs : \A k \in Tasks(w) :
          (/\ proc[w].config.test_duration = 0
           /\ task[w][k].pc = "io"
           /\ task'[w][k] # task[w][k]
           /\ task'[w][k].pc \in {"throttle", "io"})
              => \/ stats'[w].requests_completed > stats[w].requests_completed
                 \/ task'[w][k].running # task[w][k].running
                 \/ shutdown_event' # shutdown_event]_vars

\* ------------------------------------------------------ rate of the workers
\* Runs of main() over the planned configurations up to the point where
\* every worker has built its rate controller.
NextStart ==
    \/ MainStart
    \/ Spawn
    \/ \E w \in Procs : RunBenchmarkStart(w)

SpecStart == InitPlan /\ [][NextStart]_vars

\* The rate the command line asks for at the start of the run: the value
\* QPSController.__init__ picks from the undivided options.
ConfiguredQps == QPSController_init(config, 0).current_qps

\* The workers that have built their rate controller.
Started == {w \in Procs : proc[w].pc = "connect"}

\* C33: when the orchestrator plans several workers under a configured
\* rate limit, every worker's controller starts with current_qps > 0, and
\* the ceilings of all workers sum to at most the configured value.
C33_WorkersRateLimited ==
    (config.num_processes > 1 /\ ConfiguredQps > 0) =>
        /\ \A w \in Started : qps_controller[w].current_qps > 0
        /\ Started = Procs =>
              SumOver([w \in Procs |-> qps_controller[w].current_qps], Procs)
                  <= ConfiguredQps

\* ------------------------------------------------------ exponential ramp
\* C34: in an exponential ramp with start_qps > 0 and end_qps > 0,
\* current_qps is at least 1 and lies between min(start_qps, end_qps) and
\* max(start_qps, end_qps) in every reachable state, for every ramp factor
\* > 0: ramping never makes a rate-limited controller unlimited.
C34_ExponentialRampInRange ==
    (/\ Ramping
     /\ config.qps_ramp_mode = "exponential"
     /\ config.start_qps > 0 /\ config.end_qps > 0
     /\ FactorPositive(config.qps_ramp_factor)) =>
        /\ qps_controller[0].current_qps >= 1
        /\ qps_controller[0].current_qps >= Min(config.start_qps, config.end_qps)
        /\ qps_controller[0].current_qps <= Max(config.start_qps, config.end_qps)

\* ------------------------------------------------------ pending messages
\* The failures carried by the csv_interval messages of the sequence q.
QueuedErrors(q) ==
    SumSeq([i \in 1 .. Len(q) |->
               IF q[i].type = "csv_interval" THEN q[i].interval_errors ELSE 0])

\* The failures the orchestrator holds in its pending map.
PendingErrors(pending) == SumField(pending, "interval_errors", DOMAIN pending)

\* The failures of the rows printed in out.
PrintedErrors(out) ==
    SumSeq([i \in 1 .. Len(out) |->
               IF out[i].line = "row" THEN out[i].requests_total_failed ELSE 0])

\* C35: in CSV mode with several workers every csv_interval message the
\* orchestrator takes from the queue, in its loop or in the drain after the
\* workers have exited, goes into exactly one printed row: a step of the
\* orchestrator moves the failures the messages carry from the queue to the
\* pending map and from there to a row, and loses none of them, also when a
\* worker's second message arrives while its first is still pending.
C35_EveryIntervalMessageInOneRow ==
    [][(config.num_processes > 1 /\ config.csv_mode /\ orch' # orch) =>
          QueuedErrors(metrics_queue') + PendingErrors(orch'.interval_worker_metrics)
              + PrintedErrors(stdout')
          = QueuedErrors(metrics_queue) + PendingErrors(orch.interval_worker_metrics)
              + PrintedErrors(stdout)
    ]_vars

\* ------------------------------------------------------ final summary
\* Every worker has returned from run_benchmark: its process has ended
\* without an exception, a sys.exit or a terminate().
AllExitedNormally == \A w \in Procs : proc[w].pc = "returned"

\* No progress message was refused by a full queue, and the final message
\* of every worker that recorded a sample has reached the orchestrator.
NothingDropped ==
    /\ \A w \in Procs : hist[w].dropped = 0
    /\ Len(orch.all_latencies)
          = SumOver([w \in Procs |-> Len(stats[w].latencies)], Procs)

\* C36: in human mode with several workers, once all workers have exited
\* normally and no message was dropped, the summary reports the sum of the
\* workers' final requests_completed and the sum of their final errors, and
\* its latency list holds every worker's latencies exactly once.
C36_SummaryMatchesWorkers ==
    (/\ config.num_processes > 1 /\ ~config.csv_mode
     /\ orch.pc = "returned" /\ ~orch.interrupted
     /\ AllExitedNormally /\ NothingDropped) =>
        LET summary == stdout[Len(stdout)] IN
        /\ summary.line = "final"
        /\ summary.requests_completed = TotalCompleted
        /\ summary.errors = TotalErrors
        /\ \A v \in 0 .. MaxLatency * UnitsPerUsec :
              Count(orch.all_latencies, v)
                  = SumOver([w \in Procs |-> Count(stats[w].latencies, v)], Procs)

\* ------------------------------------------------------ counters and lists
\* C37: in every reachable state of a worker requests_completed is the
\* length of its full latency list and, in CSV mode, interval_requests is
\* the length of interval_latencies, for any interleaving of its request
\* tasks and any sequence of flushes.
C37_CountersMatchLists ==
    \A w \in Procs :
        /\ stats[w].requests_completed = Len(stats[w].latencies)
        /\ stats[w].csv_mode =>
              stats[w].interval_requests = Len(stats[w].interval_latencies)

\* A single worker with two request tasks has printed a row, which emptied
\* the bucket, and has recorded a further sample since; a request is in
\* flight.
C37_Witness ==
    /\ config.num_processes = 1 /\ config.num_threads = 2
    /\ Len(Rows) >= 1
    /\ stats[0].requests_completed = 2
    /\ stats[0].interval_requests = 1
    /\ Len(stats[0].interval_latencies) = 1
    /\ \E k \in Tasks(0) : task[0][k].pc = "io"

\* A worker of a run with several processes has sent its bucket of two
\* samples to the queue and holds an empty bucket.
C37_WitnessQueued ==
    /\ config.num_processes > 1
    /\ stats[0].has_queue
    /\ stats[0].requests_completed = 2
    /\ stats[0].interval_requests = 0
    /\ stats[0].interval_latencies = <<>>
    /\ \E i \in 1 .. Len(metrics_queue) :
          /\ metrics_queue[i].type = "csv_interval"
          /\ metrics_queue[i].worker_id = 0

\* ------------------------------------------------------ ramp of several workers
\* Runs of two worker processes with a linear ramp every second, three
\* requests per worker: from 2 to 6 by 2 and from 3 to 5 by 1 in total.
SplitRampConfigs ==
    {[BaseConfig EXCEPT !.num_processes = MaxProcesses,
                        !.total_requests = MaxResponses * MaxProcesses,
                        !.start_qps = r[1], !.end_qps = r[2], !.qps_change = r[3],
                        !.qps_change_interval = 1] :
        r \in {<<2, 6, 2>>, <<3, 5, 1>>}}

InitSplitRamp ==
    \E cfg \in SplitRampConfigs :
        InitWith(cfg, [BaseEnv EXCEPT !.max_time = 0])

NextSplitRamp ==
    \/ MainStart
    \/ MainExit
    \/ Spawn
    \/ OrchLoopCheck
    \/ OrchGet
    \/ OrchGetTimeout
    \/ \E w \in Procs : RunBenchmarkStart(w)
    \/ \E w \in Procs : CreateClient(w)
    \/ \E w \in Procs : \E k \in Tasks(w) : TaskStart(w, k)
    \/ \E w \in Procs : \E k \in Tasks(w) : ThrottleWake(w, k)
    \/ \E w \in Procs : \E k \in Tasks(w) : RequestReturns(w, k)
    \/ \E w \in Procs : GatherReturns(w)
    \/ \E w \in Procs : FinalPut(w)
    \/ \E w \in Procs : FinalPutTimeout(w)
    \/ \E w \in Procs : CloseClient(w)
    \/ TimerExpires

SpecSplitRamp == InitSplitRamp /\ [][NextSplitRamp]_vars

\* The ramp intervals that have passed since the program started.
RampIntervals == now \div Sec(config.qps_change_interval)

\* C38: with several workers and a linear ramp (qps_change > 0) the sum of
\* the workers' current_qps after k ramp intervals is at most
\* min(end_qps, start_qps + k * qps_change), computed from the configured,
\* undivided values.
C38_AggregateCeilingRamps ==
    (/\ config.num_processes > 1 /\ config.qps_change > 0
     /\ \A w \in Procs : proc[w].pc \in {"connect", "run"}) =>
        SumOver([w \in Procs |-> qps_controller[w].current_qps], Procs)
            <= Min(config.end_qps,
                   config.start_qps + RampIntervals * config.qps_change)

\* ------------------------------------------------------ HSET warmup
\* hset_benchmark.py: the hash tables (line 25) and the tables one call of
\* _execute_warmup populates (line 129).
num_hash_tables == 100
num_concurrent == 20

\* hset_benchmark_large.py: the small hash tables (line 33), the id of the
\* large one (line 37) and the small tables one call populates (line 133).
num_small_hash_tables == 80
large_hash_id == 80
num_concurrent_small == 10

\* The quota of a warmup run.
WarmupRequests == 12

\* CustomCommands.__init__ of hset_benchmark.py, lines 23-46, with the
\* values of HSET_WARMUP_MODE, WARMUP_PROCESS_ID and WARMUP_TOTAL_PROCESSES.
CustomCommands_init(warmup_mode, warmup_process_id, warmup_total_processes) ==
    LET hashes_per_process == num_hash_tables \div warmup_total_processes
        start == warmup_process_id * hashes_per_process
    IN  [ program |-> "hset_benchmark",
          warmup_mode |-> warmup_mode,
          warmup_start_hash |-> start,
          warmup_end_hash |->
              IF warmup_process_id = warmup_total_processes - 1
              THEN num_hash_tables
              ELSE (warmup_process_id + 1) * hashes_per_process,
          warmup_current_hash |-> start,
          warmup_completed |-> FALSE ]

\* CustomCommands.__init__ of hset_benchmark_large.py, lines 30-50.  The
\* class keeps no partition; its tables are 0 .. total_hash_tables - 1.
LargeCustomCommands_init(warmup_mode) ==
    [ program |-> "hset_benchmark_large",
      warmup_mode |-> warmup_mode,
      warmup_start_hash |-> 0,
      warmup_end_hash |-> num_small_hash_tables + 1,
      warmup_current_hash |-> 0,
      warmup_completed |-> FALSE ]

\* The hash tables a call of _execute_warmup sets out to populate
\* (hset_benchmark.py lines 132-138, hset_benchmark_large.py lines 132-142
\* and 151-152), read from warmup_current_hash before the await.
warmup_tasks(obj) ==
    IF obj.program = "hset_benchmark"
    THEN {h \in obj.warmup_current_hash .. obj.warmup_current_hash + num_concurrent - 1 :
             h < obj.warmup_end_hash}
    ELSE IF obj.warmup_current_hash < num_small_hash_tables
    THEN {h \in obj.warmup_current_hash
                   .. obj.warmup_current_hash + num_concurrent_small - 1 :
             h < num_small_hash_tables}
    ELSE IF obj.warmup_current_hash = num_small_hash_tables
    THEN {large_hash_id}
    ELSE {}

\* Whether a call of _execute_warmup reaches an await: not when
\* warmup_completed is set (lines 125-126, 128-129), and in the large
\* program not when warmup_current_hash is past the large table, where
\* neither branch is taken (lines 132 and 151).
warmup_awaits(obj) ==
    /\ ~obj.warmup_completed
    /\ obj.program = "hset_benchmark_large" =>
          obj.warmup_current_hash <= num_small_hash_tables

\* The rest of _execute_warmup after its await (hset_benchmark.py lines
\* 143-146, hset_benchmark_large.py lines 147-148 and 153-154), in the
\* branch the call took before the await: hash_ids are the tables it
\* populated.
execute_warmup_resume(obj, hash_ids) ==
    IF obj.program = "hset_benchmark"
    THEN LET current == obj.warmup_current_hash + num_concurrent
         IN  [obj EXCEPT !.warmup_current_hash = current,
                         !.warmup_completed = @ \/ current >= obj.warmup_end_hash]
    ELSE IF hash_ids = {large_hash_id}
    THEN [obj EXCEPT !.warmup_current_hash = @ + 1,
                     !.warmup_completed = TRUE]
    ELSE [obj EXCEPT !.warmup_current_hash = @ + num_concurrent_small]

RECURSIVE warmup_loop(_, _, _, _)
\* The loop of a request task, lines 704-735, from its condition to the
\* next await, for the custom command with the warmup object obj: a call of
\* execute() that returns without awaiting is recorded by add_latency and
\* the loop goes round at once.  [c: the context afterwards, pc, hash_ids].
warmup_loop(c, obj, total_requests, t) ==
    IF c.stats.requests_completed >= total_requests
    THEN [c |-> c, pc |-> "done", hash_ids |-> {}]
    ELSE IF warmup_awaits(obj)
    THEN [c |-> c, pc |-> "io", hash_ids |-> warmup_tasks(obj)]
    ELSE warmup_loop(add_latency(c, 0, t), obj, total_requests, t)

\* Single-process warmup runs of both HSET programs, with one and several
\* request tasks; hset_benchmark.py alone, as the first and as the last of
\* three warmup processes.
WarmupObjects ==
    {CustomCommands_init(TRUE, 0, 1), CustomCommands_init(TRUE, 0, 3),
     CustomCommands_init(TRUE, 2, 3), LargeCustomCommands_init(TRUE)}

WarmupState(obj, m) ==
    LET cfg == [BaseConfig EXCEPT !.command = "custom",
                                  !.custom_command_file = "loadable",
                                  !.num_threads = m,
                                  !.total_requests = WarmupRequests]
    IN  /\ now = 0
        /\ config = cfg
        /\ env = BaseEnv
        /\ main = [pc |-> "single", exit_code |-> 0]
        /\ proc = [w \in {0} |-> [pc |-> "run", exit_code |-> 0, config |-> cfg,
                                  has_queue |-> FALSE, put_deadline |-> 0]]
        /\ stats = [w \in {0} |-> BenchmarkStats_init(FALSE, 0, FALSE, 0, 0)]
        /\ qps_controller = [w \in {0} |-> QPSController_init(cfg, 0)]
        /\ task = [w \in {0} |->
                     [k \in 0 .. m - 1 |->
                        [pc |-> "start", running |-> TRUE, timer |-> FALSE,
                         deadline |-> 0, wake |-> 0, client |-> 0, dispatched |-> 0,
                         hash_ids |-> {}]]]
        /\ client_pool = [w \in {0} |-> [opened |-> 1, closed |-> 0]]
        /\ metrics_queue = <<>>
        /\ shutdown_event = FALSE
        /\ orch = OrchInit
        /\ stdout = <<>>
        /\ hist = [w \in {0} |->
                     [total_attempts |-> 0, succeeded |-> 0, failed |-> 0,
                      admitted |-> 0, drained |-> FALSE, dropped |-> 0,
                      ramp_steps |-> 0, raised_moved |-> 0, raised_clusterdown |-> 0]]
        /\ custom_commands = [w \in {0} |-> obj]
        /\ keyspace = [h \in 0 .. obj.warmup_end_hash - 1 |-> 0]

InitWarmup ==
    \E obj \in WarmupObjects : \E m \in 1 .. MaxThreads : WarmupState(obj, m)

\* Lines 704-732: a request task starts its loop and calls execute().
WarmupTaskStart(w, k) ==
    /\ proc[w].pc = "run"
    /\ task[w][k].pc = "start"
    /\ LET l == warmup_loop(Ctx(w), custom_commands[w],
                            proc[w].config.total_requests, now)
       IN  /\ Commit(w, l.c)
           /\ task' = [task EXCEPT ![w][k].pc = l.pc, ![w][k].hash_ids = l.hash_ids,
                                   ![w][k].dispatched = IF l.pc = "io" THEN 1 ELSE 0]
           /\ hist' = [hist EXCEPT ![w].total_attempts =
                          @ + l.c.stats.requests_completed - stats[w].requests_completed
                            + (IF l.pc = "io" THEN 1 ELSE 0)]
    /\ UNCHANGED <<now, config, env, main, proc,
                   qps_controller, client_pool, shutdown_event, orch,
                   custom_commands, keyspace>>

\* The awaited gather (or the large table's population) of a call of
\* _execute_warmup is done: the server holds the tables, the object is
\* updated, execute() returns True, the latency is recorded (lines 734-735)
\* and the loop goes on to its next await.
WarmupGathered(w, k) ==
    /\ proc[w].pc = "run"
    /\ task[w][k].pc = "io"
    /\ \E latency \in env.latencies :
          LET obj == execute_warmup_resume(custom_commands[w], task[w][k].hash_ids)
              c == add_latency(Ctx(w), latency, now)
              l == warmup_loop(c, obj, proc[w].config.total_requests, now)
          IN  /\ keyspace' = [h \in DOMAIN keyspace |->
                                IF h \in task[w][k].hash_ids
                                THEN keyspace[h] + 1 ELSE keyspace[h]]
              /\ custom_commands' = [custom_commands EXCEPT ![w] = obj]
              /\ Commit(w, l.c)
              /\ task' = [task EXCEPT ![w][k].pc = l.pc,
                                      ![w][k].hash_ids = l.hash_ids,
                                      ![w][k].dispatched =
                                          IF l.pc = "io" THEN @ + 1 ELSE @]
              /\ hist' = [hist EXCEPT
                            ![w].succeeded = @ + 1,
                            ![w].total_attempts =
                                @ + l.c.stats.requests_completed
                                  - c.stats.requests_completed
                                  + (IF l.pc = "io" THEN 1 ELSE 0)]
    /\ UNCHANGED <<now, config, env, main, proc, qps_controller, client_pool,
                   shutdown_event, orch>>

NextWarmup ==
    \/ \E w \in Procs : \E k \in Tasks(w) : WarmupTaskStart(w, k)
    \/ \E w \in Procs : \E k \in Tasks(w) : WarmupGathered(w, k)

SpecWarmup == InitWarmup /\ [][NextWarmup]_vars

\* The tables of the partition of worker w's warmup object.
Partition(w) ==
    custom_commands[w].warmup_start_hash .. custom_commands[w].warmup_end_hash - 1

====
